---- MODULE Spec2Model ----
(***************************************************************************)
(* A model of the sharing engine of txdav/common/datastore/sql_sharing.py: *)
(* the bind table, the homes' in-memory child index, the notification      *)
(* inboxes and the conduit messages, driven by the operations of           *)
(* SharingMixIn (on a collection) and SharingHomeMixIn (on a home).        *)
(*                                                                         *)
(* Every handler is an operator from a store state (a record) to a store   *)
(* state.  The record carries, besides the persistent data, the registers  *)
(* of the running call: exc (the exception raised, None when none), ret    *)
(* (the value returned), view (the sharee view a call hands back) and ev   *)
(* (the side effects of the call, in the order the code performs them).    *)
(* A raised exception is not followed by a rollback: nothing in the file   *)
(* rolls back, so the state at the raise is the state that is kept.        *)
(***************************************************************************)
EXTENDS Integers, Sequences, FiniteSets, TLC

VARIABLES homes, res, binds, children, inbox, props, nextRID, nextUUID,
          lastOp, nops, race, pods

vars == <<homes, res, binds, children, inbox, props, nextRID, nextUUID,
          lastOp, nops, race, pods>>

-----------------------------------------------------------------------------
(* Bounds of the exploration. *)

\* operations performed in one behaviour of Spec
MaxOps == 4

\* operations the callers of the two pods perform in one behaviour of SpecPods
MaxPodOps == 5

-----------------------------------------------------------------------------
(* Values. *)

\* Python's None
None == "<None>"

_BIND_MODE_OWN == "own"
_BIND_MODE_READ == "read"
_BIND_MODE_WRITE == "write"
_BIND_MODE_DIRECT == "direct"
_BIND_MODE_INDIRECT == "indirect"

_BIND_STATUS_INVITED == "invited"
_BIND_STATUS_ACCEPTED == "accepted"
_BIND_STATUS_DECLINED == "declined"
_BIND_STATUS_INVALID == "invalid"
_BIND_STATUS_DELETED == "deleted"

\* str(x) of Python, on the values a bind message can hold
PyStr(x) == IF x = None THEN "None" ELSE x

\* The principals: two hosted on this pod and one hosted on another pod.
LocalUIDs == {"a", "b"}
ExternalUIDs == {"x"}
UIDs == LocalUIDs \cup ExternalUIDs

\* a principal of this pod that has no home yet
UnprovisionedUIDs == {"c"}

\* Python's order of the UID strings
UidRank(u) == CASE u = "a" -> 1 [] u = "b" -> 2 [] u = "c" -> 3 [] u = "x" -> 4

\* the names uuid4() hands out, in the order of the calls
UUIDs == <<"g1", "g2", "g3", "g4", "g5", "g6", "g7", "g8", "g9">>

\* the collection a owns when a behaviour starts
OwnedRID == 1
OwnedName == "cal"

\* what a peer pod can send: the ids and names of its collections, share UIDs
PeerRIDs == {"A", "B"}
PeerNames == {"sh"}
PeerShareUIDs == {"u1", "u2"}

\* the summaries and display names callers pass
Summaries == {None, "s"}
DisplayNames == {"d"}

\* the view that is Python's None
NoView == [home |-> None, rid |-> 0, extid |-> None, name |-> None,
           mode |-> None, status |-> None, message |-> None]

-----------------------------------------------------------------------------
(* The store state and the registers of the running call. *)

State == [homes |-> homes, res |-> res, binds |-> binds,
          children |-> children, inbox |-> inbox, props |-> props,
          nextRID |-> nextRID, nextUUID |-> nextUUID,
          exc |-> None, ret |-> None, view |-> NoView, ev |-> <<>>]

Ok(s) == s.exc = None

\* the value v, handed to what follows
With(v, K(_)) == K(v)

\* what follows a step, unless the step raised
Then(s, K(_)) == IF Ok(s) THEN K(s) ELSE s
Raise(s, e) == IF Ok(s) THEN [s EXCEPT !.exc = e] ELSE s
Emit(s, e) == [s EXCEPT !.ev = Append(@, e)]
Return(s, v) == [s EXCEPT !.ret = v]
ReturnView(s, v) == [s EXCEPT !.view = v]

-----------------------------------------------------------------------------
(* The collaborators the file calls and does not define: the homes, the    *)
(* child lookups of a home, the notification collection, the conduit.      *)

\* home.external(): the directory hosts the principal on another pod
external(uid) == uid \in ExternalUIDs

\* txn.homeWithUID(homeType, uid): the home, or None
homeWithUID(s, uid) == IF uid \in s.homes THEN uid ELSE None

\* txn.homeWithUID(homeType, uid, create=True): the state with the home made
homeWithUIDCreate(s, uid) ==
    IF uid \in s.homes THEN s
    ELSE Emit([s EXCEPT !.homes = @ \cup {uid}], [e |-> "createHome", home |-> uid])

RowsOf(s, home) == {b \in s.binds : b.home = home}

OneOf(rows) == IF rows = {} THEN NoView ELSE CHOOSE b \in rows : TRUE

\* home.allChildWithID(rid): the child with that resource id, of any status
allChildWithID(s, home, rid) == OneOf({b \in RowsOf(s, home) : b.rid = rid})

\* home.childWithID(rid): the accepted child with that resource id
childWithID(s, home, rid) ==
    OneOf({b \in RowsOf(s, home) : b.rid = rid /\ b.status = _BIND_STATUS_ACCEPTED})

\* home.anyObjectWithShareUID(shareUID): the child with that bind name, of any status
anyObjectWithShareUID(s, home, shareUID) ==
    OneOf({b \in RowsOf(s, home) : b.name = shareUID})

\* home.childWithName(name): the accepted child with that name
childWithName(s, home, name) ==
    OneOf({b \in RowsOf(s, home) : b.name = name /\ b.status = _BIND_STATUS_ACCEPTED})

\* home.childWithExternalID(externalID): the accepted child with that external id
childWithExternalID(s, home, extid) ==
    OneOf({b \in RowsOf(s, home) : b.extid = extid /\ b.status = _BIND_STATUS_ACCEPTED})

\* view.ownerHome().uid(): the home the resource was created in
ownerHome(s, v) ==
    LET rs == {r \in s.res : r.rid = v.rid}
    IN  IF rs = {} THEN None ELSE (CHOOSE r \in rs : TRUE).owner

\* home.createChildWithName(name, externalID=...): a new collection with its
\* own bind, or HomeChildNameAlreadyExistsError when the home has the name
createChildWithName(s, home, name, extid) ==
    IF \E b \in RowsOf(s, home) : b.name = name
    THEN Raise(s, "HomeChildNameAlreadyExistsError")
    ELSE LET rid == s.nextRID
             row == [home |-> home, rid |-> rid, extid |-> extid, name |-> name,
                     mode |-> _BIND_MODE_OWN, status |-> _BIND_STATUS_ACCEPTED,
                     message |-> None]
             s1 == [s EXCEPT !.nextRID = rid + 1,
                             !.res = @ \cup {[rid |-> rid, owner |-> home]},
                             !.binds = @ \cup {row},
                             !.children[home] =
                                 [names |-> @.names \cup {name}, ids |-> @.ids \cup {rid}]]
         IN  ReturnView(Emit(s1, [e |-> "createChild", home |-> home, rid |-> rid]), row)

\* home.removeExternalChild(view): the collection and all its binds are gone
removeExternalChild(s, home, v) ==
    LET s1 == [s EXCEPT !.res = {r \in @ : r.rid # v.rid},
                        !.binds = {b \in @ : b.rid # v.rid},
                        !.props = {p \in @ : p.rid # v.rid},
                        !.children[home] =
                            [names |-> @.names \ {v.name}, ids |-> @.ids \ {v.rid}]]
    IN  Emit(s1, [e |-> "removeChild", home |-> home, rid |-> v.rid])

\* notifications.writeNotificationObject(uid, type, data) in the inbox of `to`
writeNotificationObject(s, to, n) ==
    Emit([s EXCEPT !.inbox = {m \in @ : ~(m.to = to /\ m.uid = n.uid)} \cup {n}],
         [e |-> "notify", n |-> n])

\* notifications.removeNotificationObjectWithUID(uid) in the inbox of `to`
removeNotificationObjectWithUID(s, to, uid) ==
    Emit([s EXCEPT !.inbox = {m \in @ : ~(m.to = to /\ m.uid = uid)}],
         [e |-> "unnotify", to |-> to, uid |-> uid])

\* shareeView.properties().get(DisplayName, default)
DisplayNameOf(s, v, default) ==
    LET ps == {p \in s.props : p.home = v.home /\ p.rid = v.rid}
    IN  IF ps = {} THEN default ELSE (CHOOSE p \in ps : TRUE).dn

-----------------------------------------------------------------------------
(* The bind table's statements. *)

\* the insert violates the table's keys: (home, resource) and (home, name)
InsertConflict(s, row) ==
    \E b \in RowsOf(s, row.home) : b.rid = row.rid \/ b.name = row.name

\* _bindInsertQuery inside txn.subtransaction(doInsert): the row is there
\* afterwards, or every retry failed
_bindInsertQuery(s, row) ==
    IF InsertConflict(s, row)
    THEN Raise(s, "AllRetriesFailed")
    ELSE Emit([s EXCEPT !.binds = @ \cup {row}], [e |-> "insert", row |-> row])

\* the row with the columns of cols set from mode, status, message
WithColumns(b, cols, mode, status, message) ==
    [b EXCEPT !.mode = IF "mode" \in cols THEN mode ELSE @,
              !.status = IF "status" \in cols THEN status ELSE @,
              !.message = IF "message" \in cols THEN message ELSE @]

_updateBindColumnsQuery(s, cols, mode, status, message, rid, home) ==
    Emit([s EXCEPT !.binds =
              {IF b.rid = rid /\ b.home = home
               THEN WithColumns(b, cols, mode, status, message) ELSE b : b \in @}],
         [e |-> "update", home |-> home, rid |-> rid, cols |-> cols])

\* a delete that keeps the row and marks it DELETED
_deleteBindForResourceIDAndHomeID_soft(s, rid, home) ==
    Emit([s EXCEPT !.binds =
              {IF b.rid = rid /\ b.home = home
               THEN [b EXCEPT !.status = _BIND_STATUS_DELETED] ELSE b : b \in @}],
         [e |-> "delete", home |-> home, rid |-> rid])

_deleteBindForResourceIDAndHomeID(s, rid, home) ==
    Emit([s EXCEPT !.binds = {b \in @ : ~(b.rid = rid /\ b.home = home)}],
         [e |-> "delete", home |-> home, rid |-> rid])

\* the rows of _sharedInvitationBindForResourceID
_sharedInvitationBindForResourceID(s, rid) ==
    {b \in s.binds : b.rid = rid /\ b.mode # _BIND_MODE_OWN}

-----------------------------------------------------------------------------
(* SharingMixIn: the accessors of a view. *)

owned(v) == v.mode = _BIND_MODE_OWN
direct(v) == v.mode = _BIND_MODE_DIRECT
shareUID(v) == v.name
shareStatus(v) == v.status
shareMode(v) == v.mode
shareMessage(v) == v.message
isShared(v) == owned(v) /\ v.message = "shared"

\* view.external(): the view of a collection whose owner home is external
viewExternal(s, v) == external(ownerHome(s, v))

invalidateQueryCache(s, v) ==
    Emit(s, [e |-> "invalidate", home |-> v.home, rid |-> v.rid])

notifyPropertyChanged(s, v) == Emit(s, [e |-> "propertyChanged", rid |-> v.rid])

\* a home that raises no change notification
notifyChanged_none(s, home) == s

notifyChanged(s, home) == Emit(s, [e |-> "homeChanged", home |-> home])

_initSyncToken(s, v) == Emit(s, [e |-> "initSyncToken", home |-> v.home, rid |-> v.rid])

_deletedSyncToken(s, v) ==
    Emit(s, [e |-> "deletedSyncToken", home |-> v.home, rid |-> v.rid])

_initBindRevision(s, v) ==
    invalidateQueryCache(
        Emit(s, [e |-> "bindRevision", home |-> v.home, rid |-> v.rid]), v)

newShare(s, v) == Emit(s, [e |-> "newShare", home |-> v.home, rid |-> v.rid])

-----------------------------------------------------------------------------
(* SharingMixIn: the lower level API. *)

\* ownerView(): the child of the owner home with this resource id
ownerView(s, v) ==
    IF ownerHome(s, v) = None THEN NoView ELSE childWithID(s, ownerHome(s, v), v.rid)

\* shareeView(shareeUID): the sharee's child with this resource id
shareeView(s, self, shareeUID) ==
    IF self.home = shareeUID THEN NoView
    ELSE IF homeWithUID(s, shareeUID) = None THEN NoView
    ELSE allChildWithID(s, shareeUID, self.rid)

_changedStatus(s, v) ==
    IF v.status = _BIND_STATUS_ACCEPTED
    THEN LET s1 == _initBindRevision(_initSyncToken(s, v), v)
         IN  Emit([s1 EXCEPT !.children[v.home] =
                       [names |-> @.names \cup {v.name}, ids |-> @.ids \cup {v.rid}]],
                  [e |-> "indexAdd", home |-> v.home, rid |-> v.rid])
    ELSE IF v.status \in {_BIND_STATUS_INVITED, _BIND_STATUS_DECLINED}
    THEN LET s1 == _deletedSyncToken(s, v)
         IN  Emit([s1 EXCEPT !.children[v.home] =
                       [names |-> @.names \ {v.name}, ids |-> @.ids \ {v.rid}]],
                  [e |-> "indexPop", home |-> v.home, rid |-> v.rid])
    ELSE s

\* a column map that takes every value given, differing or not
columnMap_given(sv, mode, status, summary) ==
    (IF mode # None THEN {"mode"} ELSE {})
    \cup (IF status # None THEN {"status"} ELSE {})
    \cup (IF summary # None THEN {"message"} ELSE {})

\* the columns updateShare writes
columnMap(sv, mode, status, summary) ==
    (IF mode # None /\ mode # sv.mode THEN {"mode"} ELSE {})
    \cup (IF status # None /\ status # sv.status THEN {"status"} ELSE {})
    \cup (IF summary # None /\ summary # sv.message THEN {"message"} ELSE {})

\* updateShare(shareeView, mode, status, summary); the view register holds
\* the sharee view as the call leaves it
updateShare(s, self, sv, mode, status, summary) ==
    IF sv = NoView THEN Raise(s, "AttributeError")
    ELSE With(columnMap(sv, mode, status, summary), LAMBDA cols :
         IF cols = {} THEN ReturnView(s, sv)
         ELSE With(WithColumns(sv, cols, mode, status, summary), LAMBDA sv1 :
              With(_updateBindColumnsQuery(
                       IF "status" \in cols
                       THEN Emit(s, [e |-> "previousAcceptCount", home |-> sv.home])
                       ELSE s,
                       cols, mode, status, summary, self.rid, sv.home), LAMBDA s2 :
              ReturnView(
                  notifyChanged(
                      notifyPropertyChanged(
                          invalidateQueryCache(
                              IF "status" \in cols THEN _changedStatus(s2, sv1) ELSE s2,
                              sv1),
                          self),
                      sv1.home),
                  sv1))))

\* setShared(shared), on the owner view as the caller holds it
setShared(s, self, shared) ==
    IF ~owned(self) THEN Raise(s, "AssertionError")
    ELSE LET newMessage == IF shared THEN "shared" ELSE None
         IN  IF self.message = newMessage THEN s
             ELSE LET s1 == _updateBindColumnsQuery(s, {"message"}, None, None, newMessage,
                                                    self.rid, self.home)
                  IN  notifyPropertyChanged(invalidateQueryCache(s1, self), self)

\* newShareName(): the next uuid
newShareName(s) == UUIDs[s.nextUUID]

\* doInsert in its sub-transaction: ret is the name of the new bind, exc is
\* AllRetriesFailed where the insert could not be made
doInsert(s, self, shareeHome, mode, status, summary, shareName) ==
    LET newName == IF shareName # None THEN shareName ELSE newShareName(s)
        s0 == IF shareName # None THEN s ELSE [s EXCEPT !.nextUUID = @ + 1]
        row == [home |-> shareeHome, rid |-> self.rid, extid |-> self.extid,
                name |-> newName, mode |-> mode, status |-> status, message |-> summary]
    IN  Return(_bindInsertQuery(s0, row), newName)

\* a shareWith that does not catch AllRetriesFailed
shareWithFallback_raise(s, self, child, mode, status, summary) ==
    Raise(s, "AllRetriesFailed")

\* a fallback that returns a name of its own making
shareWithFallback_fresh(s, self, child, mode, status, summary) ==
    Then(updateShare(s, self, child, mode, status, summary),
         LAMBDA u : Return(u, newShareName(u)))

\* shareWith after AllRetriesFailed, child being the bind the home was found
\* to have: the bind is updated and its name returned
shareWithFallback(s, self, child, mode, status, summary) ==
    Then(updateShare(s, self, child, mode, status, summary),
         LAMBDA u : Return(u, child.name))

\* shareWith after the insert: an accepted share gets its tokens
shareWithInserted(s, shareeHome, bindName, status) ==
    IF status = _BIND_STATUS_ACCEPTED
    THEN LET shareeV == anyObjectWithShareUID(s, shareeHome, bindName)
         IN  Return(_initBindRevision(_initSyncToken(s, shareeV), shareeV), bindName)
    ELSE Return(s, bindName)

\* an end of shareWith that marks the collection and notifies nobody
shareWithFinish_quiet(s, self, shareeHome) == setShared(s, self, TRUE)

\* the end of shareWith: the collection is marked shared, the changes notified
shareWithFinish(s, self, shareeHome) ==
    Then(setShared(s, self, TRUE),
         LAMBDA s2 : notifyChanged(notifyPropertyChanged(s2, self), shareeHome))

\* shareWith(shareeHome, mode, status, summary, shareName); ret is the bind name
shareWith(s, self, shareeHome, mode, status0, summary, shareName) ==
    With(IF status0 = None THEN _BIND_STATUS_ACCEPTED ELSE status0, LAMBDA status :
    With(doInsert(s, self, shareeHome, mode, status, summary, shareName), LAMBDA ins :
    Then(IF ins.exc = "AllRetriesFailed"
         THEN shareWithFallback([ins EXCEPT !.exc = None], self,
                                allChildWithID(ins, shareeHome, self.rid),
                                mode, status, summary)
         ELSE shareWithInserted(ins, shareeHome, ins.ret, status), LAMBDA s1 :
    Return(shareWithFinish(s1, self, shareeHome), s1.ret))))

\* a createShare that makes every share an invitation
createStatus_invited(mode) == _BIND_STATUS_INVITED

\* the status createShare hands to shareWith
createStatus(mode) ==
    IF mode # _BIND_MODE_DIRECT THEN _BIND_STATUS_INVITED ELSE _BIND_STATUS_ACCEPTED

\* createShare(shareeUID, mode, summary, shareName); view is the sharee view
createShare(s, self, shareeUID, mode, summary, shareName) ==
    Then(shareWith(homeWithUIDCreate(s, shareeUID), self, shareeUID, mode,
                   createStatus(mode), summary, shareName),
         LAMBDA s2 : ReturnView(s2, shareeView(s2, self, shareeUID)))

\* a removeShare that deletes the bind before anything else
removeShare_deleteFirst(s, self, sv) ==
    IF sv = NoView THEN Raise(s, "AttributeError")
    ELSE With(_deletedSyncToken(_deleteBindForResourceIDAndHomeID(s, self.rid, sv.home), sv),
              LAMBDA s1 :
         invalidateQueryCache(
             notifyChanged(
                 notifyPropertyChanged(
                     Emit([s1 EXCEPT !.children[sv.home] =
                               [names |-> @.names \ {sv.name}, ids |-> @.ids \ {sv.rid}]],
                          [e |-> "indexPop", home |-> sv.home, rid |-> sv.rid]),
                     self),
                 sv.home),
             sv))

\* a removeShare that evicts the resource from the index and keeps the bind
removeShare_keep(s, self, sv) ==
    IF sv = NoView THEN Raise(s, "AttributeError")
    ELSE Emit([s EXCEPT !.children[sv.home] =
                   [names |-> @.names \ {sv.name}, ids |-> @.ids \ {sv.rid}]],
              [e |-> "indexPop", home |-> sv.home, rid |-> sv.rid])

\* removeShare(shareeView)
removeShare(s, self, sv) ==
    IF sv = NoView THEN Raise(s, "AttributeError")
    ELSE LET shareeHome == sv.home
             s1 == _deletedSyncToken(s, sv)
             s2 == Emit([s1 EXCEPT !.children[shareeHome] =
                             [names |-> @.names \ {sv.name}, ids |-> @.ids \ {sv.rid}]],
                        [e |-> "indexPop", home |-> shareeHome, rid |-> sv.rid])
             s3 == notifyChanged(notifyPropertyChanged(s2, self), shareeHome)
             s4 == _deleteBindForResourceIDAndHomeID(s3, self.rid, shareeHome)
         IN  invalidateQueryCache(s4, sv)

\* one SharingInvitation of sharingInvites()
SharingInvitation(s, self, b) ==
    [uid |-> b.name, ownerUID |-> ownerHome(s, self), ownerHomeID |-> ownerHome(s, self),
     shareeUID |-> b.home, shareeHomeID |-> b.home,
     mode |-> b.mode, status |-> b.status, summary |-> b.message]

\* the orders in which a select can hand back the rows of a set
Orders(rows) ==
    {f \in [1..Cardinality(rows) -> rows] : \A i, j \in DOMAIN f : f[i] = f[j] => i = j}

\* sharingInvites(), the select handing back its rows as the sequence rowSeq
sharingInvites(s, self, rowSeq) ==
    IF ~owned(self) THEN <<>>
    ELSE [i \in DOMAIN rowSeq |-> SharingInvitation(s, self, rowSeq[i])]

\* a count that sees no invitation
sharingInvitesLen_zero(s, v) == 0

\* the number of invitations sharingInvites() returns
sharingInvitesLen(s, self) ==
    IF ~owned(self) THEN 0
    ELSE Cardinality(_sharedInvitationBindForResourceID(s, self.rid))

\* filter(lambda x: x.mode != _BIND_MODE_DIRECT, invitations)
RECURSIVE filterNotDirect(_)
filterNotDirect(invs) ==
    IF invs = <<>> THEN <<>>
    ELSE IF Head(invs).mode # _BIND_MODE_DIRECT
    THEN <<Head(invs)>> \o filterNotDirect(Tail(invs))
    ELSE filterNotDirect(Tail(invs))

\* insertion of one invitation into a list sorted by shareeUID, after its equals
RECURSIVE insertByShareeUID(_, _)
insertByShareeUID(inv, sorted) ==
    IF sorted = <<>> THEN <<inv>>
    ELSE IF UidRank(inv.shareeUID) < UidRank(Head(sorted).shareeUID)
    THEN <<inv>> \o sorted
    ELSE <<Head(sorted)>> \o insertByShareeUID(inv, Tail(sorted))

\* a sort that leaves the list as it is
sortByShareeUID_none(invs) == invs

\* invitations.sort(key=lambda invitation: invitation.shareeUID)
RECURSIVE sortByShareeUID(_)
sortByShareeUID(invs) ==
    IF invs = <<>> THEN <<>>
    ELSE insertByShareeUID(invs[Len(invs)], sortByShareeUID(SubSeq(invs, 1, Len(invs) - 1)))

\* allInvitations()
allInvitations(s, self, rowSeq) ==
    sortByShareeUID(filterNotDirect(sharingInvites(s, self, rowSeq)))

-----------------------------------------------------------------------------
(* SharingMixIn: notifications and conduit messages. *)

\* a notification that always carries the bind's own status
notificationStatus_bind(sv, notificationState) == shareStatus(sv)

\* the "status" of the invite notification
notificationStatus(sv, notificationState) ==
    IF notificationState = None THEN shareStatus(sv) ELSE notificationState

\* _sendInviteNotification(shareeView, notificationState), on the owner view
_sendInviteNotification(s, self, sv, notificationState) ==
    LET displayname == IF notificationState = _BIND_STATUS_DELETED
                       THEN PyStr(DisplayNameOf(s, sv, shareMessage(sv)))
                       ELSE shareMessage(sv)
        n == [to |-> sv.home, uid |-> shareUID(sv), ntype |-> "invite-notification",
              owner |-> ownerHome(s, sv), sharee |-> sv.home,
              status |-> notificationStatus(sv, notificationState),
              access |-> shareMode(sv), ownerName |-> self.name,
              inReplyTo |-> None, summary |-> displayname]
    IN  writeNotificationObject(s, sv.home, n)

\* "%s-reply" % (self.shareUID(),)
ReplyUID(v) == shareUID(v) \o "-reply"

\* _sendReplyNotification(ownerView, summary), on the sharee view
_sendReplyNotification(s, self, ownerV, summary) ==
    LET n == [to |-> ownerHome(s, self), uid |-> ReplyUID(self), ntype |-> "invite-reply",
              owner |-> ownerHome(s, self), sharee |-> self.home,
              status |-> shareStatus(self), access |-> None, ownerName |-> ownerV.name,
              inReplyTo |-> shareUID(self), summary |-> summary]
    IN  writeNotificationObject(s, ownerHome(s, self), n)

\* _removeInviteNotification(shareeView), on the owner view
_removeInviteNotification(s, self, sv) ==
    removeNotificationObjectWithUID(s, sv.home, shareUID(sv))

_sendExternalInvite(s, self, sv) ==
    Emit(s, [e |-> "send_shareinvite", ownerUID |-> ownerHome(s, sv), rid |-> self.rid,
             name |-> self.name, shareeUID |-> sv.home, shareUID |-> shareUID(sv),
             mode |-> shareMode(sv), message |-> shareMessage(sv)])

\* an uninvite that is not sent to the sharee's pod
_sendExternalUninvite_none(s, self, sv) == s

_sendExternalUninvite(s, self, sv) ==
    Emit(s, [e |-> "send_shareuninvite", ownerUID |-> ownerHome(s, sv), rid |-> self.rid,
             shareeUID |-> sv.home, shareUID |-> shareUID(sv)])

_replyExternalInvite(s, self, status, summary) ==
    Emit(s, [e |-> "send_sharereply", ownerUID |-> ownerHome(s, self),
             shareeUID |-> self.home, shareUID |-> shareUID(self),
             status |-> status, summary |-> summary])

-----------------------------------------------------------------------------
(* SharingMixIn: the higher level API. *)

\* a re-invite that never resets the status
reinviteStatus_never(sv) == None

\* a re-invite that resets the status whatever it was
reinviteStatus_always(sv) == _BIND_STATUS_INVITED

\* a re-invitation that resets a declined share only
reinviteStatus_declined(sv) ==
    IF shareStatus(sv) = _BIND_STATUS_DECLINED THEN _BIND_STATUS_INVITED ELSE None

\* the status inviteUIDToShare asks updateShare for, on an existing share
reinviteStatus(sv) ==
    IF shareStatus(sv) \in {_BIND_STATUS_DECLINED, _BIND_STATUS_INVALID}
    THEN _BIND_STATUS_INVITED ELSE None

\* a dispatch that writes to the inbox of every sharee, external ones too
dispatchInvite_both(s, self, sv) ==
    IF external(sv.home)
    THEN _sendInviteNotification(_sendExternalInvite(s, self, sv), self, sv, None)
    ELSE _sendInviteNotification(s, self, sv, None)

\* the end of inviteUIDToShare: the invite goes to the sharee's pod through the
\* conduit, or to the sharee's inbox
dispatchInvite(s, self, sv) ==
    IF external(sv.home) THEN _sendExternalInvite(s, self, sv)
    ELSE _sendInviteNotification(s, self, sv, None)

\* inviteUIDToShare(shareeUID, mode, summary, shareName); view is the sharee view
inviteUIDToShare(s, self, shareeUID, mode, summary, shareName) ==
    With(shareeView(s, self, shareeUID), LAMBDA sv0 :
    \* after updateShare the caller still holds the view it passed in,
    \* which updateShare has brought up to date
    Then(IF sv0 # NoView
         THEN updateShare(s, self, sv0, mode, reinviteStatus(sv0), summary)
         ELSE createShare(s, self, shareeUID, mode, summary, shareName), LAMBDA s1 :
    With(s1.view, LAMBDA sv :
        IF sv = NoView THEN Raise(s1, "AttributeError")
        ELSE dispatchInvite(s1, self, sv))))

\* directShareWithUser where there is no share yet: create it, run the
\* first-share hook, tell the sharee's pod
directShareCreate(s, self, shareeUID, shareName) ==
    Then(createShare(s, self, shareeUID, _BIND_MODE_DIRECT, None, shareName), LAMBDA s1 :
    With(s1.view, LAMBDA sv :
        IF sv = NoView THEN Raise(s1, "AttributeError")
        ELSE IF external(sv.home) THEN _sendExternalInvite(newShare(s1, sv), self, sv)
        ELSE newShare(s1, sv)))

\* a direct share that does not look for an existing share
directShareWithUser_always(s, self, shareeUID, shareName) ==
    directShareCreate(s, self, shareeUID, shareName)

\* directShareWithUser(shareeUID, shareName); view is the sharee view
directShareWithUser(s, self, shareeUID, shareName) ==
    With(shareeView(s, self, shareeUID), LAMBDA sv0 :
        IF sv0 # NoView THEN ReturnView(s, sv0)
        ELSE directShareCreate(s, self, shareeUID, shareName))

\* an uninvite that takes the accepted share for the pending one
pendingInvite_accepted(sv) == shareStatus(sv) = _BIND_STATUS_ACCEPTED

\* uninviteUIDFromShare's test: the invite was not accepted, its notification
\* is to be cancelled
pendingInvite(sv) == shareStatus(sv) # _BIND_STATUS_ACCEPTED

\* uninviteUIDFromShare(shareeUID)
uninviteUIDFromShare(s, self, shareeUID) ==
    With(shareeView(s, self, shareeUID), LAMBDA sv :
        IF sv = NoView THEN s
        ELSE removeShare(
                 IF external(sv.home) THEN _sendExternalUninvite(s, self, sv)
                 ELSE IF ~direct(sv)
                 THEN IF pendingInvite(sv)
                      THEN _removeInviteNotification(s, self, sv)
                      ELSE _sendInviteNotification(s, self, sv, _BIND_STATUS_DELETED)
                 ELSE s,
                 self, sv))

\* a guard that takes a direct share for an invitation
statusToChange_direct(self, status) == shareStatus(self) # status

\* the guard of acceptShare and of declineShare: the share is an invitation
\* whose status is not yet the one asked for
statusToChange(self, status) == ~direct(self) /\ shareStatus(self) # status

\* an acceptShare that replies to the owner's pod after everything else
acceptShare_replyLast(s, self, summary) ==
    IF statusToChange(self, _BIND_STATUS_ACCEPTED)
    THEN With(ownerView(s, self), LAMBDA ownerV :
             IF ownerV = NoView THEN Raise(s, "AttributeError")
             ELSE With(updateShare(s, ownerV, self, None, _BIND_STATUS_ACCEPTED, None),
                       LAMBDA s2 :
                  With(newShare(s2, s2.view), LAMBDA s3 :
                  With(IF ~viewExternal(s3, ownerV)
                       THEN _sendReplyNotification(s3, s2.view, ownerV, summary)
                       ELSE s3, LAMBDA s4 :
                      IF viewExternal(s4, self)
                      THEN _replyExternalInvite(s4, self, _BIND_STATUS_ACCEPTED, summary)
                      ELSE s4))))
    ELSE ReturnView(s, self)

\* acceptShare(summary), on the sharee view; view is that view afterwards
acceptShare(s, self, summary) ==
    IF statusToChange(self, _BIND_STATUS_ACCEPTED)
    THEN With(IF viewExternal(s, self)
              THEN _replyExternalInvite(s, self, _BIND_STATUS_ACCEPTED, summary)
              ELSE s, LAMBDA s1 :
         With(ownerView(s1, self), LAMBDA ownerV :
             IF ownerV = NoView THEN Raise(s1, "AttributeError")
             ELSE With(updateShare(s1, ownerV, self, None, _BIND_STATUS_ACCEPTED, None),
                       LAMBDA s2 :
                  With(newShare(s2, s2.view), LAMBDA s3 :
                      IF ~viewExternal(s3, ownerV)
                      THEN _sendReplyNotification(s3, s2.view, ownerV, summary)
                      ELSE s3))))
    ELSE ReturnView(s, self)

\* declineShare(), on the sharee view; view is that view afterwards
declineShare(s, self) ==
    IF statusToChange(self, _BIND_STATUS_DECLINED)
    THEN With(IF viewExternal(s, self)
              THEN _replyExternalInvite(s, self, _BIND_STATUS_DECLINED, None)
              ELSE s, LAMBDA s1 :
         With(ownerView(s1, self), LAMBDA ownerV :
             IF ownerV = NoView THEN Raise(s1, "AttributeError")
             ELSE With(updateShare(s1, ownerV, self, None, _BIND_STATUS_DECLINED, None),
                       LAMBDA s2 :
                      IF ~viewExternal(s2, ownerV)
                      THEN _sendReplyNotification(s2, s2.view, ownerV, None)
                      ELSE s2)))
    ELSE ReturnView(s, self)

\* deleteShare(), on the sharee view
deleteShare(s, self) ==
    IF direct(self)
    THEN With(ownerView(s, self), LAMBDA ownerV :
             IF ownerV = NoView THEN Raise(s, "AttributeError")
             ELSE With(removeShare(s, ownerV, self), LAMBDA s1 :
                      IF viewExternal(s1, ownerV)
                      THEN _replyExternalInvite(s1, self, _BIND_STATUS_DECLINED, None)
                      ELSE s1))
    ELSE declineShare(s, self)

\* for invitation in invitations[i..]: uninviteUIDFromShare(invitation.shareeUID)
\* a loop that stops after the first invitation
uninviteEach_first(s, self, invitations, i) ==
    IF Len(invitations) = 0 THEN s
    ELSE uninviteUIDFromShare(s, self, invitations[1].shareeUID)

RECURSIVE uninviteEach(_, _, _, _)
uninviteEach(s, self, invitations, i) ==
    IF i > Len(invitations) \/ ~Ok(s) THEN s
    ELSE uninviteEach(uninviteUIDFromShare(s, self, invitations[i].shareeUID),
                      self, invitations, i + 1)

\* ownerDeleteShare(), the select of sharingInvites() handing back rowSeq
ownerDeleteShare(s, self, rowSeq) ==
    Then(setShared(s, self, FALSE),
         LAMBDA s1 : uninviteEach(s1, self, sharingInvites(s1, self, rowSeq), 1))

\* for invite in invites[i..]: removeShare(shareeView(invite.shareeUID))
RECURSIVE removeEach(_, _, _, _)
removeEach(s, self, invites, i) ==
    IF i > Len(invites) \/ ~Ok(s) THEN s
    ELSE removeEach(removeShare(s, self, shareeView(s, self, invites[i].shareeUID)),
                    self, invites, i + 1)

\* unshare(), the select of sharingInvites() handing back rowSeq
unshare(s, self, rowSeq) ==
    IF owned(self) THEN removeEach(s, self, sharingInvites(s, self, rowSeq), 1)
    ELSE With(ownerView(s, self), LAMBDA ownerV :
             IF ownerV = NoView THEN Raise(s, "AttributeError")
             ELSE removeShare(s, ownerV, self))

-----------------------------------------------------------------------------
(* SharingHomeMixIn. *)

\* home.acceptShare(shareUID, summary); view is the sharee view, or None
homeAcceptShare(s, home, uid, summary) ==
    With(anyObjectWithShareUID(s, home, uid), LAMBDA sv :
        IF sv # NoView THEN acceptShare(s, sv, summary)
        ELSE ReturnView(s, NoView))

\* home.declineShare(shareUID); ret tells whether there is such a share
homeDeclineShare(s, home, uid) ==
    With(anyObjectWithShareUID(s, home, uid), LAMBDA sv :
        IF sv # NoView THEN Return(declineShare(s, sv), "True")
        ELSE Return(s, "False"))

\* no repair: the name conflict is raised again
repairNameCollision_none(s, ownerUID, ownerRID, ownerName) ==
    Raise(s, "HomeChildNameAlreadyExistsError")

\* a repair that does not look at the invitations of the old collection
repairNameCollision_always(s, ownerUID, ownerRID, ownerName) ==
    With(childWithName(s, ownerUID, ownerName), LAMBDA oldOwnerView :
        IF oldOwnerView = NoView THEN Raise(s, "AttributeError")
        ELSE createChildWithName(removeExternalChild(s, ownerUID, oldOwnerView),
                                 ownerUID, ownerName, ownerRID))

\* the repair of processExternalInvite after HomeChildNameAlreadyExistsError
repairNameCollision(s, ownerUID, ownerRID, ownerName) ==
    With(childWithName(s, ownerUID, ownerName), LAMBDA oldOwnerView :
        IF oldOwnerView = NoView THEN Raise(s, "AttributeError")
        ELSE IF sharingInvitesLen(s, oldOwnerView) # 0
        THEN Raise(Emit(s, [e |-> "log.error", msg |-> "still has shares"]),
                   "HomeChildNameAlreadyExistsError")
        ELSE createChildWithName(
                 removeExternalChild(Emit(s, [e |-> "log.error", msg |-> "trying to fix"]),
                                     ownerUID, oldOwnerView),
                 ownerUID, ownerName, ownerRID))

\* processExternalInvite's owner view: the collection with the external id,
\* found or made; view is that collection
externalOwnerView(s, ownerUID, ownerRID, ownerName) ==
    With(childWithExternalID(s, ownerUID, ownerRID), LAMBDA found :
        IF found # NoView THEN ReturnView(s, found)
        ELSE With(createChildWithName(s, ownerUID, ownerName, ownerRID), LAMBDA made :
                 IF made.exc = "HomeChildNameAlreadyExistsError"
                 THEN repairNameCollision(s, ownerUID, ownerRID, ownerName)
                 ELSE made))

\* processExternalInvite(ownerUID, ownerRID, ownerName, shareUID, bindMode,
\* summary, copy_invite_properties), on the sharee's home
processExternalInvite(s, selfHome, ownerUID, ownerRID, ownerName, sUID, bindMode, summary) ==
    With(homeWithUIDCreate(s, ownerUID), LAMBDA s1 :
        IF ~external(ownerUID) THEN Raise(s1, "ExternalShareFailed")
        ELSE Then(externalOwnerView(s1, ownerUID, ownerRID, ownerName), LAMBDA s2 :
             Then(IF bindMode = _BIND_MODE_DIRECT
                  THEN directShareWithUser(s2, s2.view, selfHome, sUID)
                  ELSE inviteUIDToShare(s2, s2.view, selfHome, bindMode, summary, sUID),
                  LAMBDA s3 :
                 IF s3.view = NoView THEN Raise(s3, "AttributeError")
                 ELSE Emit(s3, [e |-> "setInviteCopyProperties",
                                home |-> s3.view.home, rid |-> s3.view.rid]))))

\* processExternalUninvite(ownerUID, ownerRID, shareUID), on the sharee's home
processExternalUninvite(s, selfHome, ownerUID, ownerRID, sUID) ==
    IF homeWithUID(s, ownerUID) = None \/ ~external(ownerUID)
    THEN Raise(s, "ExternalShareFailed")
    ELSE With(childWithExternalID(s, ownerUID, ownerRID), LAMBDA ownerV :
             IF ownerV = NoView THEN Raise(s, "ExternalShareFailed")
             ELSE Then(uninviteUIDFromShare(s, ownerV, selfHome), LAMBDA s1 :
                      IF sharingInvitesLen(s1, ownerV) = 0
                      THEN removeExternalChild(s1, ownerUID, ownerV)
                      ELSE s1))

\* processExternalReply(ownerUID, shareeUID, shareUID, bindStatus, summary)
processExternalReply(s, ownerUID, shareeUID, sUID, bindStatus, summary) ==
    IF homeWithUID(s, shareeUID) = None \/ ~external(shareeUID)
    THEN Raise(s, "ExternalShareFailed")
    ELSE With(anyObjectWithShareUID(s, shareeUID, sUID), LAMBDA sv :
             IF sv = NoView THEN Raise(s, "ExternalShareFailed")
             ELSE IF bindStatus = _BIND_STATUS_ACCEPTED
             THEN homeAcceptShare(s, shareeUID, sUID, summary)
             ELSE IF bindStatus = _BIND_STATUS_DECLINED
             THEN IF direct(sv) THEN deleteShare(s, sv)
                  ELSE homeDeclineShare(s, shareeUID, sUID)
             ELSE s)

-----------------------------------------------------------------------------
(* The behaviours: the operations a caller of the store runs, one after    *)
(* the other, each on the views it looks up in the store as it is.         *)

\* the arguments of a call: the collection and the principal it is about
\* (rid, uid), the home it is made on, and what else the caller passes;
\* invites is the number of invitations of the collection before the call
NoArgs == [rid |-> 0, uid |-> None, home |-> None, mode |-> None, status |-> None,
           summary |-> None, name |-> None, extid |-> None, invites |-> 0]

\* the record of the last call: its arguments, the views it was made on as
\* they were before it (self, and pre: the view of the pair it is about),
\* its registers when it ended, and trip: how far the calls so far have
\* come through invite, accept, decline, invite on one pair without a bind
Idle == [op |-> "none", args |-> NoArgs, self |-> NoView, pre |-> NoView,
         exc |-> None, ret |-> None, view |-> NoView, ev |-> <<>>, trip |-> 0]

\* no second pod is there
NoPods == [store |-> <<>>, wire |-> <<>>, nops |-> 0, overlap |-> FALSE,
           last |-> [op |-> "none", pod |-> 0, exc |-> None, recv |-> <<>>]]

\* no two calls are running against each other
NoRace == [self |-> NoView, home |-> None, last |-> None, calls |-> <<>>]

\* the stage of the round trip the call op reaches
Trip(op, args, pre) ==
    LET samePair == lastOp.args.rid = args.rid /\ lastOp.args.uid = args.uid
    IN  IF op = "inviteUIDToShare" /\ pre = NoView THEN 1
        ELSE IF op = "acceptShare" /\ lastOp.trip = 1 /\ samePair THEN 2
        ELSE IF op = "declineShare" /\ lastOp.trip = 2 /\ samePair THEN 3
        ELSE IF op = "inviteUIDToShare" /\ lastOp.trip = 3 /\ samePair THEN 4
        ELSE 0

\* the store is left as the state s has it
Commit(s) ==
    /\ homes' = s.homes
    /\ res' = s.res
    /\ binds' = s.binds
    /\ children' = s.children
    /\ inbox' = s.inbox
    /\ props' = s.props
    /\ nextRID' = s.nextRID
    /\ nextUUID' = s.nextUUID

\* the store is left as the call left it, and the call is recorded
Finish(op, args, self, pre, s) ==
    /\ nops < MaxOps
    /\ nops' = nops + 1
    /\ Commit(s)
    /\ lastOp' = [op |-> op, args |-> args, self |-> self, pre |-> pre,
                  exc |-> s.exc, ret |-> s.ret, view |-> s.view, ev |-> s.ev,
                  trip |-> Trip(op, args, pre)]
    /\ UNCHANGED <<race, pods>>

\* the collections a caller on this pod holds the owner-side view of
OwnerViews == {b \in binds : b.home \in LocalUIDs /\ owned(b)}

\* the views a principal of this pod holds of collections shared to it
ShareeViews == {b \in binds : b.home \in LocalUIDs /\ ~owned(b)}

InviteModes == {_BIND_MODE_READ, _BIND_MODE_WRITE}

\* the (mode, summary) pairs invitations are made with
InviteArgs == {<<_BIND_MODE_READ, None>>, <<_BIND_MODE_WRITE, "s">>}

Init ==
    /\ homes = LocalUIDs
    /\ res = {[rid |-> OwnedRID, owner |-> "a"]}
    /\ binds = {[home |-> "a", rid |-> OwnedRID, extid |-> None, name |-> OwnedName,
                 mode |-> _BIND_MODE_OWN, status |-> _BIND_STATUS_ACCEPTED,
                 message |-> None]}
    /\ children = [h \in UIDs \cup UnprovisionedUIDs |-> IF h = "a"
                                  THEN [names |-> {OwnedName}, ids |-> {OwnedRID}]
                                  ELSE [names |-> {}, ids |-> {}]]
    /\ inbox = {}
    /\ props = {}
    /\ nextRID = OwnedRID + 1
    /\ nextUUID = 1
    /\ lastOp = Idle
    /\ nops = 0
    /\ race = NoRace
    /\ pods = NoPods

InviteUIDToShare ==
    \E self \in OwnerViews, uid \in UIDs, ms \in InviteArgs :
        Finish("inviteUIDToShare",
               [NoArgs EXCEPT !.rid = self.rid, !.uid = uid, !.mode = ms[1],
                              !.summary = ms[2]],
               self, allChildWithID(State, uid, self.rid),
               inviteUIDToShare(State, self, uid, ms[1], ms[2], None))

DirectShareWithUser ==
    \E self \in OwnerViews, uid \in UIDs :
        Finish("directShareWithUser", [NoArgs EXCEPT !.rid = self.rid, !.uid = uid],
               self, allChildWithID(State, uid, self.rid),
               directShareWithUser(State, self, uid, None))

UninviteUIDFromShare ==
    \E self \in OwnerViews, uid \in UIDs :
        Finish("uninviteUIDFromShare", [NoArgs EXCEPT !.rid = self.rid, !.uid = uid],
               self, allChildWithID(State, uid, self.rid),
               uninviteUIDFromShare(State, self, uid))

AcceptShare ==
    \E sv \in ShareeViews, summary \in Summaries :
        Finish("acceptShare",
               [NoArgs EXCEPT !.rid = sv.rid, !.uid = sv.home, !.name = sv.name,
                              !.summary = summary],
               sv, sv, homeAcceptShare(State, sv.home, sv.name, summary))

DeclineShare ==
    \E sv \in ShareeViews :
        Finish("declineShare",
               [NoArgs EXCEPT !.rid = sv.rid, !.uid = sv.home, !.name = sv.name],
               sv, sv, homeDeclineShare(State, sv.home, sv.name))

DeleteShare ==
    \E sv \in ShareeViews :
        Finish("deleteShare", [NoArgs EXCEPT !.rid = sv.rid, !.uid = sv.home],
               sv, sv, deleteShare(State, sv))

OwnerDeleteShare ==
    \E self \in OwnerViews :
        \E rowSeq \in Orders(_sharedInvitationBindForResourceID(State, self.rid)) :
            Finish("ownerDeleteShare", [NoArgs EXCEPT !.rid = self.rid],
                   self, NoView, ownerDeleteShare(State, self, rowSeq))

Unshare ==
    \E self \in OwnerViews \cup ShareeViews :
        \E rowSeq \in Orders(_sharedInvitationBindForResourceID(State, self.rid)) :
            Finish("unshare", [NoArgs EXCEPT !.rid = self.rid, !.uid = self.home],
                   self, self, unshare(State, self, rowSeq))

\* the (mode, status) pairs shareWith is called with: createShare's, and an
\* invited mode with the status left to its default
ShareWithModes ==
    {<<_BIND_MODE_READ, None>>, <<_BIND_MODE_WRITE, _BIND_STATUS_INVITED>>,
     <<_BIND_MODE_DIRECT, None>>}

\* the share name a caller of shareWith asks for with a (mode, status) pair:
\* none, or a name of its own for an invitation
ShareWithName(ms) == IF ms[2] = None THEN None ELSE "n"

\* the share names a caller of shareWith can ask for: that one, and where it
\* names the share at all, a name another resource has in the sharee home
ShareWithNames(self, home, ms) ==
    {ShareWithName(ms)}
    \cup (IF ShareWithName(ms) = None THEN {}
          ELSE {b.name : b \in {r \in RowsOf(State, home) : r.rid # self.rid}})

ShareWith ==
    \E self \in OwnerViews, home \in homes, ms \in ShareWithModes :
        \E shareName \in ShareWithNames(self, home, ms) :
            /\ home # self.home
            /\ Finish("shareWith",
                      [NoArgs EXCEPT !.rid = self.rid, !.uid = home, !.mode = ms[1],
                                     !.status = ms[2], !.name = shareName],
                      self, allChildWithID(State, home, self.rid),
                      shareWith(State, self, home, ms[1], ms[2], None, shareName))

\* the (mode, status, summary) triples updateShare is called with
UpdateArgs ==
    {<<None, st, None>> : st \in {_BIND_STATUS_INVITED, _BIND_STATUS_ACCEPTED,
                                  _BIND_STATUS_DECLINED, _BIND_STATUS_INVALID}}
    \cup {<<_BIND_MODE_WRITE, None, None>>, <<None, None, "s">>,
          <<_BIND_MODE_WRITE, _BIND_STATUS_ACCEPTED, "s">>}

UpdateShare ==
    \E self \in OwnerViews :
        \E sv \in _sharedInvitationBindForResourceID(State, self.rid), a \in UpdateArgs :
            Finish("updateShare",
                   [NoArgs EXCEPT !.rid = self.rid, !.uid = sv.home, !.mode = a[1],
                                  !.status = a[2], !.summary = a[3]],
                   self, sv, updateShare(State, self, sv, a[1], a[2], a[3]))

\* what the conduit hands to processExternalInvite: the invites of a principal
\* of another pod (a share UID may come again with another collection), and
\* those of principals that are not of another pod, with a home and without
ExternalInvites ==
    {[ownerUID |-> "x", ownerRID |-> ru[1], ownerName |-> n, shareUID |-> ru[2],
      mode |-> ms[1], summary |-> ms[2]]
        : ru \in {<<"A", "u1">>, <<"B", "u2">>, <<"B", "u1">>}, n \in PeerNames,
          ms \in {<<_BIND_MODE_READ, "s">>, <<_BIND_MODE_DIRECT, None>>}}
    \cup {[ownerUID |-> u, ownerRID |-> "A", ownerName |-> "sh", shareUID |-> "u1",
           mode |-> _BIND_MODE_READ, summary |-> None] : u \in {"b"} \cup UnprovisionedUIDs}

ProcessExternalInvite ==
    \E home \in homes \cap LocalUIDs, i \in ExternalInvites :
        Finish("processExternalInvite",
               [NoArgs EXCEPT !.home = home, !.uid = i.ownerUID, !.extid = i.ownerRID,
                              !.name = i.shareUID, !.mode = i.mode,
                              !.summary = i.summary,
                              !.invites = Cardinality(_sharedInvitationBindForResourceID(
                                  State, childWithName(State, i.ownerUID, i.ownerName).rid))],
               childWithExternalID(State, i.ownerUID, i.ownerRID),
               childWithName(State, i.ownerUID, i.ownerName),
               processExternalInvite(State, home, i.ownerUID, i.ownerRID, i.ownerName,
                                     i.shareUID, i.mode, i.summary))

\* what the conduit hands to processExternalUninvite
ExternalUninvites ==
    {[ownerUID |-> "x", ownerRID |-> r, shareUID |-> "u1"] : r \in PeerRIDs}
    \cup {[ownerUID |-> "b", ownerRID |-> "A", shareUID |-> "u1"]}

ProcessExternalUninvite ==
    \E home \in homes \cap LocalUIDs, i \in ExternalUninvites :
        Finish("processExternalUninvite",
               [NoArgs EXCEPT !.home = home, !.uid = i.ownerUID, !.extid = i.ownerRID,
                              !.name = i.shareUID],
               childWithExternalID(State, i.ownerUID, i.ownerRID),
               IF childWithExternalID(State, i.ownerUID, i.ownerRID) = NoView THEN NoView
               ELSE allChildWithID(State, home,
                                   childWithExternalID(State, i.ownerUID, i.ownerRID).rid),
               processExternalUninvite(State, home, i.ownerUID, i.ownerRID, i.shareUID))

\* what the conduit hands to processExternalReply: the replies of the sharee
\* of another pod, about a share it has or one it has not, and one of a
\* principal that is not of another pod; a reply carries the status the peer
\* put in it, which may be one the handler has no branch for
ExternalReplies ==
    {[shareeUID |-> "x", shareUID |-> u, status |-> ss[1], summary |-> ss[2]]
        : u \in {b.name : b \in RowsOf(State, "x")} \cup {"u1"},
          ss \in {<<_BIND_STATUS_ACCEPTED, "s">>, <<_BIND_STATUS_DECLINED, None>>}}
    \cup {[shareeUID |-> "x", shareUID |-> b.name, status |-> _BIND_STATUS_DELETED,
           summary |-> None] : b \in RowsOf(State, "x")}
    \cup {[shareeUID |-> "b", shareUID |-> "u1", status |-> _BIND_STATUS_ACCEPTED,
           summary |-> None]}

ProcessExternalReply ==
    \E i \in ExternalReplies :
        Finish("processExternalReply",
               [NoArgs EXCEPT !.uid = i.shareeUID, !.name = i.shareUID,
                              !.status = i.status, !.summary = i.summary],
               anyObjectWithShareUID(State, i.shareeUID, i.shareUID),
               anyObjectWithShareUID(State, i.shareeUID, i.shareUID),
               processExternalReply(State, "a", i.shareeUID, i.shareUID, i.status,
                                    i.summary))

\* a sharee names its view of a collection (a PROPPATCH of DAV:displayname)
SetDisplayName ==
    \E sv \in ShareeViews, dn \in DisplayNames :
        Finish("setDisplayName", [NoArgs EXCEPT !.rid = sv.rid, !.uid = sv.home], sv, sv,
               [State EXCEPT !.props = {p \in @ : ~(p.home = sv.home /\ p.rid = sv.rid)}
                                        \cup {[home |-> sv.home, rid |-> sv.rid, dn |-> dn]}])

Next ==
    \/ InviteUIDToShare
    \/ DirectShareWithUser
    \/ UninviteUIDFromShare
    \/ AcceptShare
    \/ DeclineShare
    \/ DeleteShare
    \/ OwnerDeleteShare
    \/ Unshare
    \/ ShareWith
    \/ UpdateShare
    \/ ProcessExternalInvite
    \/ ProcessExternalUninvite
    \/ ProcessExternalReply
    \/ SetDisplayName

Spec == Init /\ [][Next]_vars

-----------------------------------------------------------------------------
(* Two shareWith calls for one collection and one sharee home, each in its  *)
(* own transaction, taken apart at the points where shareWith waits on the  *)
(* store: the insert sub-transaction, the read of the bind after            *)
(* AllRetriesFailed, updateShare, the token initialisation, and the end.    *)

\* the (mode, status) pairs of the two calls: the modes differ
RaceModes ==
    {mm \in ({_BIND_MODE_READ, _BIND_MODE_WRITE, _BIND_MODE_DIRECT}
               \X {None, _BIND_STATUS_INVITED})
            \X ({_BIND_MODE_READ, _BIND_MODE_WRITE, _BIND_MODE_DIRECT}
               \X {None, _BIND_STATUS_INVITED}) : mm[1][1] # mm[2][1]}

\* the names the two calls ask for: none, or the same one
RaceNames == {None, "n"}

\* the bind the sharee home may have of the collection before the calls
RaceOld ==
    [home |-> "b", rid |-> OwnedRID, extid |-> None, name |-> UUIDs[1],
     mode |-> _BIND_MODE_READ, status |-> _BIND_STATUS_ACCEPTED, message |-> None]

\* a call that has not started
RaceCall(ms, name) ==
    [pc |-> "insert", mode |-> ms[1],
     status |-> IF ms[2] = None THEN _BIND_STATUS_ACCEPTED ELSE ms[2],
     summary |-> None, shareName |-> name, child |-> NoView, bindName |-> None,
     exc |-> None, fellBack |-> FALSE]

InitRace ==
    \E old \in BOOLEAN, mm \in RaceModes, name \in RaceNames :
        /\ homes = LocalUIDs
        /\ res = {[rid |-> OwnedRID, owner |-> "a"]}
        /\ binds = {[home |-> "a", rid |-> OwnedRID, extid |-> None, name |-> OwnedName,
                     mode |-> _BIND_MODE_OWN, status |-> _BIND_STATUS_ACCEPTED,
                     message |-> IF old THEN "shared" ELSE None]}
                   \cup (IF old THEN {RaceOld} ELSE {})
        /\ children = [h \in UIDs \cup UnprovisionedUIDs |->
                          IF h = "a" THEN [names |-> {OwnedName}, ids |-> {OwnedRID}]
                          ELSE IF h = "b" /\ old
                          THEN [names |-> {RaceOld.name}, ids |-> {OwnedRID}]
                          ELSE [names |-> {}, ids |-> {}]]
        /\ inbox = {}
        /\ props = {}
        /\ nextRID = OwnedRID + 1
        /\ nextUUID = IF old THEN 2 ELSE 1
        /\ lastOp = Idle
        /\ nops = 0
        /\ race = [self |-> CHOOSE b \in binds : owned(b),
                   home |-> "b",
                   last |-> IF old THEN RaceOld.mode ELSE None,
                   calls |-> <<RaceCall(mm[1], name), RaceCall(mm[2], name)>>]
        /\ pods = NoPods

\* the call p moves on: the store is as s has it, the call as c has it, and
\* the mode last written to the bind is noted
RaceStep(p, s, c, last) ==
    /\ Commit(s)
    /\ race' = [race EXCEPT !.calls[p] = c, !.last = last]
    /\ UNCHANGED <<lastOp, nops, pods>>

\* the call wrote the mode column of the bind
WroteMode(s) ==
    \E i \in DOMAIN s.ev : s.ev[i].e = "update" /\ "mode" \in s.ev[i].cols

\* self._txn.subtransaction(doInsert)
RaceInsert(p) ==
    LET c == race.calls[p]
        s == doInsert(State, race.self, race.home, c.mode, c.status, c.summary,
                      c.shareName)
    IN  /\ c.pc = "insert"
        /\ IF s.exc = "AllRetriesFailed"
           THEN RaceStep(p, s, [c EXCEPT !.pc = "read", !.fellBack = TRUE], race.last)
           ELSE RaceStep(p, s, [c EXCEPT !.pc = "inserted", !.bindName = s.ret], c.mode)

\* child = yield shareeHome.allChildWithID(self._resourceID)
RaceRead(p) ==
    LET c == race.calls[p]
    IN  /\ c.pc = "read"
        /\ RaceStep(p, State,
                    [c EXCEPT !.pc = "update",
                              !.child = allChildWithID(State, race.home, race.self.rid)],
                    race.last)

\* yield self.updateShare(child, mode=mode, status=status, summary=summary)
RaceUpdate(p) ==
    LET c == race.calls[p]
        s == shareWithFallback(State, race.self, c.child, c.mode, c.status, c.summary)
    IN  /\ c.pc = "update"
        /\ IF ~Ok(s)
           THEN RaceStep(p, s, [c EXCEPT !.pc = "raised", !.exc = s.exc], race.last)
           ELSE RaceStep(p, s, [c EXCEPT !.pc = "finish", !.bindName = s.ret],
                         IF WroteMode(s) THEN c.mode ELSE race.last)

\* the else branch of the try: the tokens of an accepted share
RaceInserted(p) ==
    LET c == race.calls[p]
        s == shareWithInserted(State, race.home, c.bindName, c.status)
    IN  /\ c.pc = "inserted"
        /\ RaceStep(p, s, [c EXCEPT !.pc = "finish"], race.last)

\* setShared(True), the notifications, and the return
RaceFinish(p) ==
    LET c == race.calls[p]
        s == shareWithFinish(State, race.self, race.home)
    IN  /\ c.pc = "finish"
        /\ IF ~Ok(s)
           THEN RaceStep(p, s, [c EXCEPT !.pc = "raised", !.exc = s.exc], race.last)
           ELSE RaceStep(p, s, [c EXCEPT !.pc = "done"], race.last)

NextRace ==
    \E p \in {1, 2} :
        \/ RaceInsert(p)
        \/ RaceRead(p)
        \/ RaceUpdate(p)
        \/ RaceInserted(p)
        \/ RaceFinish(p)

SpecRace == InitRace /\ [][NextRace]_vars

-----------------------------------------------------------------------------
(* Two pods.  Each pod has its own store, written in its own names: its     *)
(* principals a and b, and x, the principal the other pod hosts.  The       *)
(* principal a of one pod is the x of the other, so a UID that crosses the  *)
(* conduit is renamed.  A conduit message is handed to the peer's inbound   *)
(* operation some time after it was sent, the messages to one pod in the    *)
(* order of their sending; callers on either pod may run operations in the  *)
(* meantime.                                                                *)

Pods == {1, 2}

Peer(p) == 3 - p

\* the UID a principal has on the peer pod
PeerUID(u) == IF u = "a" THEN "x" ELSE IF u = "x" THEN "a" ELSE u

\* the external id under which the peer keeps a collection of this pod: its
\* resource id, in the peer's form
ExternalID(rid) == IF rid = OwnedRID THEN "A" ELSE "B"

\* the store of pod p when a behaviour starts; the uuids of the two pods
\* are different ones
PodStore(p) ==
    [homes |-> LocalUIDs,
     res |-> {[rid |-> OwnedRID, owner |-> "a"]},
     binds |-> {[home |-> "a", rid |-> OwnedRID, extid |-> None, name |-> OwnedName,
                 mode |-> _BIND_MODE_OWN, status |-> _BIND_STATUS_ACCEPTED,
                 message |-> None]},
     children |-> [h \in UIDs \cup UnprovisionedUIDs |->
                      IF h = "a" THEN [names |-> {OwnedName}, ids |-> {OwnedRID}]
                      ELSE [names |-> {}, ids |-> {}]],
     inbox |-> {}, props |-> {},
     nextRID |-> OwnedRID + 1,
     nextUUID |-> IF p = 1 THEN 1 ELSE MaxPodOps + 1,
     exc |-> None, ret |-> None, view |-> NoView, ev |-> <<>>]

\* the store a call leaves, the registers cleared for the next call
Settled(s) == [s EXCEPT !.exc = None, !.ret = None, !.view = NoView, !.ev = <<>>]

\* the conduit messages the call sent, in the order of the sends
Outbound(s) ==
    SelectSeq(s.ev, LAMBDA x : x.e \in {"send_shareinvite", "send_shareuninvite",
                                        "send_sharereply"})

\* conduit.recv_shareinvite: the sharee's home handles the invite
recv_shareinvite(s, m) ==
    processExternalInvite(s, PeerUID(m.shareeUID), PeerUID(m.ownerUID), ExternalID(m.rid),
                          m.name, m.shareUID, m.mode, m.message)

\* conduit.recv_shareuninvite: the sharee's home handles the uninvite
recv_shareuninvite(s, m) ==
    processExternalUninvite(s, PeerUID(m.shareeUID), PeerUID(m.ownerUID),
                            ExternalID(m.rid), m.shareUID)

\* conduit.recv_sharereply: the owner's home handles the reply
recv_sharereply(s, m) ==
    processExternalReply(s, PeerUID(m.ownerUID), PeerUID(m.shareeUID), m.shareUID,
                         m.status, m.summary)

\* the collection a owns on the pod whose store is s, as its owner holds it
PodOwnerViews(s) == {b \in s.binds : b.home = "a" /\ owned(b)}

\* the views the principals of the pod hold of collections shared to them
PodShareeViews(s) == {b \in s.binds : b.home \in LocalUIDs /\ ~owned(b)}

InitPods ==
    /\ homes = LocalUIDs
    /\ res = {[rid |-> OwnedRID, owner |-> "a"]}
    /\ binds = {[home |-> "a", rid |-> OwnedRID, extid |-> None, name |-> OwnedName,
                 mode |-> _BIND_MODE_OWN, status |-> _BIND_STATUS_ACCEPTED,
                 message |-> None]}
    /\ children = [h \in UIDs \cup UnprovisionedUIDs |-> IF h = "a"
                                  THEN [names |-> {OwnedName}, ids |-> {OwnedRID}]
                                  ELSE [names |-> {}, ids |-> {}]]
    /\ inbox = {}
    /\ props = {}
    /\ nextRID = OwnedRID + 1
    /\ nextUUID = 1
    /\ lastOp = Idle
    /\ nops = 0
    /\ race = NoRace
    /\ pods = [store |-> [p \in Pods |-> PodStore(p)],
               wire |-> [p \in Pods |-> <<>>],
               nops |-> 0, overlap |-> FALSE,
               last |-> [op |-> "none", pod |-> 0, exc |-> None, recv |-> <<>>]]

\* no conduit message is on its way
Quiet == \A q \in Pods : pods.wire[q] = <<>>

\* a caller's operation op on pod p has ended in s: the pod's store is as
\* the call left it and what the call sent is on its way to the peer;
\* overlap notes that an operation has run while a message was on its way
PodFinish(p, op, s) ==
    /\ pods.nops < MaxPodOps
    /\ pods' = [store |-> [pods.store EXCEPT ![p] = Settled(s)],
                wire |-> [pods.wire EXCEPT ![Peer(p)] = @ \o Outbound(s)],
                nops |-> pods.nops + 1,
                overlap |-> pods.overlap \/ ~Quiet,
                last |-> [op |-> op, pod |-> p, exc |-> s.exc, recv |-> <<>>]]
    /\ UNCHANGED <<homes, res, binds, children, inbox, props, nextRID, nextUUID,
                   lastOp, nops, race>>

\* the first message to pod q has been handled there, in s; recv notes how
\* each handling since the last operation has ended
PodReceived(q, s) ==
    /\ pods' = [pods EXCEPT !.store[q] = Settled(s),
                            !.wire = [@ EXCEPT ![q] = Tail(@),
                                               ![Peer(q)] = @ \o Outbound(s)],
                            !.last.recv = Append(@, [e |-> Head(pods.wire[q]).e,
                                                     exc |-> s.exc])]
    /\ UNCHANGED <<homes, res, binds, children, inbox, props, nextRID, nextUUID,
                   lastOp, nops, race>>

PodInvite(p) ==
    \E self \in PodOwnerViews(pods.store[p]), ms \in InviteArgs :
        PodFinish(p, "inviteUIDToShare",
                  inviteUIDToShare(pods.store[p], self, "x", ms[1], ms[2], None))

PodDirectShare(p) ==
    \E self \in PodOwnerViews(pods.store[p]) :
        PodFinish(p, "directShareWithUser",
                  directShareWithUser(pods.store[p], self, "x", None))

PodUninvite(p) ==
    \E self \in PodOwnerViews(pods.store[p]) :
        PodFinish(p, "uninviteUIDFromShare",
                  uninviteUIDFromShare(pods.store[p], self, "x"))

PodAccept(p) ==
    \E sv \in PodShareeViews(pods.store[p]) :
        PodFinish(p, "acceptShare", homeAcceptShare(pods.store[p], sv.home, sv.name, None))

PodDecline(p) ==
    \E sv \in PodShareeViews(pods.store[p]) :
        PodFinish(p, "declineShare", homeDeclineShare(pods.store[p], sv.home, sv.name))

PodDelete(p) ==
    \E sv \in PodShareeViews(pods.store[p]) :
        PodFinish(p, "deleteShare", deleteShare(pods.store[p], sv))

DeliverInvite(q) ==
    /\ pods.wire[q] # <<>>
    /\ Head(pods.wire[q]).e = "send_shareinvite"
    /\ PodReceived(q, recv_shareinvite(pods.store[q], Head(pods.wire[q])))

DeliverUninvite(q) ==
    /\ pods.wire[q] # <<>>
    /\ Head(pods.wire[q]).e = "send_shareuninvite"
    /\ PodReceived(q, recv_shareuninvite(pods.store[q], Head(pods.wire[q])))

DeliverReply(q) ==
    /\ pods.wire[q] # <<>>
    /\ Head(pods.wire[q]).e = "send_sharereply"
    /\ PodReceived(q, recv_sharereply(pods.store[q], Head(pods.wire[q])))

NextPods ==
    \E p \in Pods :
        \/ PodInvite(p)
        \/ PodDirectShare(p)
        \/ PodUninvite(p)
        \/ PodAccept(p)
        \/ PodDecline(p)
        \/ PodDelete(p)
        \/ DeliverInvite(p)
        \/ DeliverUninvite(p)
        \/ DeliverReply(p)

SpecPods == InitPods /\ [][NextPods]_vars

-----------------------------------------------------------------------------
(* What the claims read of a state. *)

\* the bind of the pair the last call was about, as it is now
Now == allChildWithID(State, lastOp.args.uid, lastOp.args.rid)

\* the resource is in the home's active child index, by name and by id
InIndex(v) == v.rid \in children[v.home].ids /\ v.name \in children[v.home].names

\* the resource is in the index neither by name nor by id
NotInIndex(v) == v.rid \notin children[v.home].ids /\ v.name \notin children[v.home].names

\* the notifications the last call wrote, in order
Written == SelectSeq(lastOp.ev, LAMBDA x : x.e = "notify")

\* the effects of one kind among those of the last call
Effects(kind) == SelectSeq(lastOp.ev, LAMBDA x : x.e = kind)

-----------------------------------------------------------------------------
(* C1 *)

\* C1: starting with no bind between R and S, inviteUIDToShare(S) leaves the
\* bind INVITED; a following acceptShare leaves it ACCEPTED with R in S's
\* active child index; a following declineShare leaves it DECLINED with R out
\* of the index; a following inviteUIDToShare(S) leaves it INVITED again.
C1_InviteAcceptDeclineReinvite ==
    /\ lastOp.trip = 1 => (lastOp.exc = None /\ Now.status = _BIND_STATUS_INVITED)
    /\ lastOp.trip = 2 => (lastOp.exc = None /\ Now.status = _BIND_STATUS_ACCEPTED
                           /\ InIndex(Now))
    /\ lastOp.trip = 3 => (lastOp.exc = None /\ Now.status = _BIND_STATUS_DECLINED
                           /\ NotInIndex(Now))
    /\ lastOp.trip = 4 => (lastOp.exc = None /\ Now.status = _BIND_STATUS_INVITED)

C1_Witness ==
    /\ lastOp.trip = 4
    /\ lastOp.pre.status = _BIND_STATUS_DECLINED
    /\ Now.status = _BIND_STATUS_INVITED

-----------------------------------------------------------------------------
(* C3 *)

\* the rows of the pair the last call was about
PairRows == {b \in binds : b.home = lastOp.args.uid /\ b.rid = lastOp.args.rid}

\* C3: a first directShareWithUser for a sharee without a bind leaves exactly
\* one bind of the pair, of mode DIRECT; a directShareWithUser for a sharee
\* that has this bind changes nothing: no bind write, no first-share hook, no
\* notification, no conduit message, and the bind is the one there was.
C3_DirectShareTwice ==
    lastOp.op = "directShareWithUser" =>
        /\ (lastOp.pre = NoView /\ lastOp.args.uid # lastOp.self.home) =>
               /\ lastOp.exc = None
               /\ Cardinality(PairRows) = 1
               /\ \A b \in PairRows : direct(b)
        /\ (lastOp.pre # NoView /\ direct(lastOp.pre)) =>
               /\ lastOp.exc = None
               /\ lastOp.ev = <<>>
               /\ PairRows = {lastOp.pre}

C3_Witness ==
    /\ lastOp.op = "directShareWithUser"
    /\ lastOp.pre # NoView
    /\ direct(lastOp.pre)
    /\ PairRows = {lastOp.pre}

-----------------------------------------------------------------------------
(* C4, C5 *)

\* the last call uninvited a sharee of this pod that had a bind not DIRECT
UninvitedLocal ==
    /\ lastOp.op = "uninviteUIDFromShare"
    /\ lastOp.args.uid # lastOp.self.home
    /\ lastOp.pre # NoView
    /\ ~external(lastOp.args.uid)
    /\ ~direct(lastOp.pre)

\* the summary the uninvite of an accepted share carries
DeletedSummary == PyStr(DisplayNameOf(State, lastOp.pre, lastOp.pre.message))

\* C4 as stated: the uninvite of an ACCEPTED sharee writes one notification
\* to the sharee's inbox that is reply-shaped, of status DELETED, with the
\* sharee's display name as summary.
C4_ReplyShaped ==
    (UninvitedLocal /\ lastOp.pre.status = _BIND_STATUS_ACCEPTED) =>
        /\ Len(Written) = 1
        /\ Written[1].n.to = lastOp.args.uid
        /\ Written[1].n.ntype = "invite-reply"
        /\ Written[1].n.status = _BIND_STATUS_DELETED
        /\ Written[1].n.summary = DeletedSummary

\* C4, amended: the uninvite of an ACCEPTED sharee writes one notification to
\* the sharee's inbox that is invite-shaped (type invite-notification, keyed
\* by the share UID, no in-reply-to), of status DELETED, whose summary is the
\* sharee's display name property or, where the view has none, the bind's
\* message.
C4_DeletedInviteNotification ==
    (UninvitedLocal /\ lastOp.pre.status = _BIND_STATUS_ACCEPTED) =>
        /\ lastOp.exc = None
        /\ Len(Written) = 1
        /\ Written[1].n.to = lastOp.args.uid
        /\ Written[1].n.uid = lastOp.pre.name
        /\ Written[1].n.ntype = "invite-notification"
        /\ Written[1].n.inReplyTo = None
        /\ Written[1].n.status = _BIND_STATUS_DELETED
        /\ Written[1].n.summary = DeletedSummary
        /\ Written[1].n \in inbox

C4_Witness ==
    /\ UninvitedLocal
    /\ lastOp.pre.status = _BIND_STATUS_ACCEPTED
    /\ \E p \in props : p.home = lastOp.pre.home /\ p.rid = lastOp.pre.rid
    /\ \E n \in inbox : /\ n.to = lastOp.args.uid
                        /\ n.status = _BIND_STATUS_DELETED
                        /\ n.summary \in DisplayNames

\* C5: the uninvite of an INVITED sharee of this pod removes the invite
\* notification keyed by the share UID from the sharee's inbox and writes no
\* notification to any inbox.
C5_PendingInviteRemoved ==
    (UninvitedLocal /\ lastOp.pre.status = _BIND_STATUS_INVITED) =>
        /\ lastOp.exc = None
        /\ Len(Written) = 0
        /\ Len(Effects("unnotify")) = 1
        /\ Effects("unnotify")[1].to = lastOp.args.uid
        /\ Effects("unnotify")[1].uid = lastOp.pre.name
        /\ ~\E n \in inbox : n.to = lastOp.args.uid /\ n.uid = lastOp.pre.name

C5_Witness ==
    /\ UninvitedLocal
    /\ lastOp.pre.status = _BIND_STATUS_INVITED
    /\ Len(Effects("unnotify")) = 1
    /\ PairRows = {}

-----------------------------------------------------------------------------
(* C6 *)

\* the elements of a sequence
Range(f) == {f[i] : i \in DOMAIN f}

\* the list is in ascending order of sharee UID
SortedByShareeUID(invs) ==
    \A i, j \in DOMAIN invs : i < j => UidRank(invs[i].shareeUID) <= UidRank(invs[j].shareeUID)

\* the owner views all of whose shares are one INVITED bind and one DIRECT bind
OneInvitedOneDirect ==
    {o \in {b \in binds : owned(b)} :
        \E i, d \in _sharedInvitationBindForResourceID(State, o.rid) :
            /\ _sharedInvitationBindForResourceID(State, o.rid) = {i, d}
            /\ ~direct(i) /\ i.status = _BIND_STATUS_INVITED
            /\ direct(d)}

\* C6 as stated: with one INVITED bind and one DIRECT bind, sharingInvites()
\* and allInvitations() both return only the INVITED entry; sharingInvites()
\* has no DIRECT entry and is ordered by sharee UID.
C6_BothOmitDirect ==
    \A o \in {b \in binds : owned(b)} :
        \A rowSeq \in Orders(_sharedInvitationBindForResourceID(State, o.rid)) :
            /\ \A inv \in Range(sharingInvites(State, o, rowSeq)) :
                   inv.mode # _BIND_MODE_DIRECT
            /\ SortedByShareeUID(sharingInvites(State, o, rowSeq))
            /\ o \in OneInvitedOneDirect =>
                   /\ Len(sharingInvites(State, o, rowSeq)) = 1
                   /\ sharingInvites(State, o, rowSeq) = allInvitations(State, o, rowSeq)

\* C6, amended: allInvitations() returns one entry for each bind of the
\* resource that is neither OWN nor DIRECT, in ascending order of sharee UID,
\* so with one INVITED bind and one DIRECT bind it returns the INVITED entry
\* alone; sharingInvites() returns one entry for each bind that is not OWN,
\* DIRECT ones included, in the order of the select.
C6_AllInvitationsOmitDirect ==
    \A o \in {b \in binds : owned(b)} :
        \A rowSeq \in Orders(_sharedInvitationBindForResourceID(State, o.rid)) :
            LET rows == _sharedInvitationBindForResourceID(State, o.rid)
                all  == allInvitations(State, o, rowSeq)
                invs == sharingInvites(State, o, rowSeq)
            IN  /\ \A inv \in Range(all) : inv.mode # _BIND_MODE_DIRECT
                /\ SortedByShareeUID(all)
                /\ Len(all) = Cardinality({b \in rows : ~direct(b)})
                /\ \A b \in rows : ~direct(b) =>
                       \E inv \in Range(all) : /\ inv.shareeUID = b.home
                                               /\ inv.uid = b.name
                                               /\ inv.status = b.status
                                               /\ inv.mode = b.mode
                /\ Len(invs) = Cardinality(rows)
                /\ \A i \in DOMAIN invs : /\ invs[i].shareeUID = rowSeq[i].home
                                          /\ invs[i].mode = rowSeq[i].mode
                /\ o \in OneInvitedOneDirect =>
                       /\ Len(all) = 1
                       /\ all[1].status = _BIND_STATUS_INVITED
                       /\ Len(invs) = 2

C6_Witness ==
    \E o \in OneInvitedOneDirect :
        \E rowSeq \in Orders(_sharedInvitationBindForResourceID(State, o.rid)) :
            /\ Len(allInvitations(State, o, rowSeq)) = 1
            /\ direct(rowSeq[1])

-----------------------------------------------------------------------------
(* C7, C8 *)

\* the last call was a processExternalInvite whose external ID no collection
\* of the shadow owner home had, while one of them had the invite's name
StaleShadow(op) ==
    /\ op.op = "processExternalInvite"
    /\ external(op.args.uid)
    /\ op.self = NoView
    /\ op.pre # NoView

-----------------------------------------------------------------------------
(* C9 *)

\* C9 as stated: every resource has exactly one bind of mode OWN, in its
\* owner's home.
C9_OneOwnBind ==
    \A r \in res :
        /\ Cardinality({b \in binds : b.rid = r.rid /\ owned(b)}) = 1
        /\ \A b \in binds : (b.rid = r.rid /\ owned(b)) => b.home = r.owner

-----------------------------------------------------------------------------
(* C10 *)

\* the status changes of section 4.1
StatusSteps ==
    {<<_BIND_STATUS_INVITED, _BIND_STATUS_ACCEPTED>>,
     <<_BIND_STATUS_INVITED, _BIND_STATUS_DECLINED>>,
     <<_BIND_STATUS_ACCEPTED, _BIND_STATUS_DECLINED>>,
     <<_BIND_STATUS_DECLINED, _BIND_STATUS_INVITED>>,
     <<_BIND_STATUS_INVALID, _BIND_STATUS_INVITED>>}

\* the status changes acceptShare and declineShare make besides
AcceptDeclineSteps ==
    {<<_BIND_STATUS_DECLINED, _BIND_STATUS_ACCEPTED>>,
     <<_BIND_STATUS_INVALID, _BIND_STATUS_ACCEPTED>>,
     <<_BIND_STATUS_INVALID, _BIND_STATUS_DECLINED>>}

\* the operations above shareWith and updateShare
CoordinatorOps ==
    {"inviteUIDToShare", "directShareWithUser", "uninviteUIDFromShare",
     "acceptShare", "declineShare", "deleteShare", "ownerDeleteShare", "unshare",
     "processExternalInvite", "processExternalUninvite", "processExternalReply"}

\* b and c are the bind of one (home, resource) pair, not OWN and not DIRECT
\* before, with different statuses
StatusChange(b, c) ==
    /\ b.home = c.home
    /\ b.rid = c.rid
    /\ ~owned(b)
    /\ ~direct(b)
    /\ b.status # c.status

\* C10 as stated: the status of a bind that is not DIRECT changes only along
\* the steps of section 4.1, whatever the operation.
C10_StatusStepsOnly ==
    [][\A b \in binds : \A c \in binds' :
           StatusChange(b, c) => <<b.status, c.status>> \in StatusSteps]_vars

\* C10, amended: under the operations above shareWith and updateShare, the
\* status of a bind that is neither OWN nor DIRECT changes only along the steps
\* of section 4.1 or from DECLINED to ACCEPTED, from INVALID to ACCEPTED or
\* from INVALID to DECLINED.
C10_CoordinatorStatusSteps ==
    [][lastOp'.op \in CoordinatorOps =>
           \A b \in binds : \A c \in binds' :
               StatusChange(b, c) =>
                   <<b.status, c.status>> \in StatusSteps \cup AcceptDeclineSteps]_vars

C10_Witness ==
    /\ lastOp.op = "acceptShare"
    /\ lastOp.pre.status = _BIND_STATUS_DECLINED
    /\ Now.status = _BIND_STATUS_ACCEPTED

-----------------------------------------------------------------------------
(* C2 *)

\* the binds of the pair the two calls are about
RaceRows == {b \in binds : b.home = race.home /\ b.rid = race.self.rid}

\* both calls have ended
RaceOver ==
    /\ race # NoRace
    /\ \A p \in DOMAIN race.calls : race.calls[p].pc \in {"done", "raised"}

\* C2: two shareWith calls for one collection and one sharee home, with
\* different modes, their inserts, reads and updates interleaved in any
\* order, both return without raising; the pair has at most one bind at any
\* time and exactly one once both have returned, whose mode is the mode that
\* was written last.
C2_RaceOneBind ==
    /\ Cardinality(RaceRows) <= 1
    /\ RaceOver =>
          /\ \A p \in DOMAIN race.calls :
                 race.calls[p].pc = "done" /\ race.calls[p].exc = None
          /\ Cardinality(RaceRows) = 1
          /\ \A b \in RaceRows : b.mode = race.last /\ b.name = race.calls[1].bindName
          /\ race.calls[1].bindName = race.calls[2].bindName

C2_Witness ==
    /\ RaceOver
    /\ \E p, q \in DOMAIN race.calls :
          /\ ~race.calls[p].fellBack
          /\ race.calls[q].fellBack
          /\ \A b \in RaceRows : b.mode = race.calls[q].mode

-----------------------------------------------------------------------------
(* C11 *)

\* the binds of the consuming homes: every bind that is not the owner's own
SharedBinds == {b \in binds : ~owned(b)}

\* C11: whenever a sharing operation has completed, a shared resource is in
\* the consuming home's active child index, under its bind name and under its
\* resource id, exactly when the pair's bind has status ACCEPTED; this
\* includes the binds shareWith inserts as ACCEPTED and the binds whose status
\* becomes INVALID.
C11_IndexIffAccepted ==
    \A b \in SharedBinds :
        IF b.status = _BIND_STATUS_ACCEPTED THEN InIndex(b) ELSE NotInIndex(b)

-----------------------------------------------------------------------------
(* C12 *)

\* a bind of mode DIRECT whose status is that of an invitation
DirectInvitation(b) ==
    direct(b) /\ b.status \in {_BIND_STATUS_INVITED, _BIND_STATUS_DECLINED}

\* C12 as stated: after any sequence of sharing operations no bind has mode
\* DIRECT with status INVITED or DECLINED.
C12_NoDirectInvitation == \A b \in binds : ~DirectInvitation(b)

\* C12, amended: the operations above shareWith and updateShare, with
\* inviteUIDToShare given an access mode (READ or WRITE), never produce a bind
\* of mode DIRECT with status INVITED or DECLINED: such a bind is there after
\* the call only if it was there, unchanged, before.
C12_CoordinatorsKeepDirectAccepted ==
    [][lastOp'.op \in CoordinatorOps =>
           \A c \in binds' : DirectInvitation(c) => c \in binds]_vars

C12_Witness ==
    /\ lastOp.op = "processExternalReply"
    /\ lastOp.args.status = _BIND_STATUS_DECLINED
    /\ direct(lastOp.pre)
    /\ lastOp.exc = None
    /\ \A b \in binds : ~(b.home = lastOp.pre.home /\ b.rid = lastOp.pre.rid)

-----------------------------------------------------------------------------
(* C13 *)

\* the operations that uninvite: uninviteUIDFromShare and its callers
UninviteOps ==
    {"uninviteUIDFromShare", "ownerDeleteShare", "unshare", "processExternalUninvite"}

\* the effects of the last call that carry the status DELETED
DeletedEffects ==
    {i \in DOMAIN lastOp.ev :
        \/ lastOp.ev[i].e = "notify" /\ lastOp.ev[i].n.status = _BIND_STATUS_DELETED
        \/ lastOp.ev[i].e = "send_sharereply"
           /\ lastOp.ev[i].status = _BIND_STATUS_DELETED}

\* C13: after any sequence of sharing operations no bind has status DELETED;
\* the status DELETED is only that of a notification an uninvite writes: an
\* invite notification in the inbox of the sharee whose bind the uninvite
\* removes.
C13_DeletedOnlyNotified ==
    /\ \A b \in binds : b.status # _BIND_STATUS_DELETED
    /\ \A i \in DeletedEffects :
          /\ lastOp.op \in UninviteOps
          /\ lastOp.ev[i].e = "notify"
          /\ lastOp.ev[i].n.ntype = "invite-notification"
          /\ \A b \in binds : ~(b.home = lastOp.ev[i].n.to /\ b.name = lastOp.ev[i].n.uid)
    /\ \A n \in inbox : n.status = _BIND_STATUS_DELETED => n.ntype = "invite-notification"

C13_Witness ==
    /\ lastOp.op = "ownerDeleteShare"
    /\ lastOp.exc = None
    /\ DeletedEffects # {}
    /\ \E n \in inbox : n.status = _BIND_STATUS_DELETED

-----------------------------------------------------------------------------
(* C14 *)

\* the call op was acceptShare on a view already ACCEPTED, declineShare on a
\* view already DECLINED, or either of them on a DIRECT view
NothingToChange(op) ==
    /\ op.op \in {"acceptShare", "declineShare"}
    /\ op.pre # NoView
    /\ \/ direct(op.pre)
       \/ op.op = "acceptShare" /\ op.pre.status = _BIND_STATUS_ACCEPTED
       \/ op.op = "declineShare" /\ op.pre.status = _BIND_STATUS_DECLINED

\* C14: acceptShare on a sharee view that is already ACCEPTED, declineShare on
\* one that is already DECLINED, and either of them on a DIRECT view, return
\* without raising and with no effect: no bind is written, the active child
\* index is as it was, no notification is written or removed, and no reply is
\* sent to another pod.
C14_AcceptDeclineNothingToChange ==
    [][NothingToChange(lastOp') =>
           /\ lastOp'.exc = None
           /\ Len(lastOp'.ev) = 0
           /\ UNCHANGED <<homes, res, binds, children, inbox, props>>]_vars

C14_Witness ==
    /\ lastOp.op = "declineShare"
    /\ direct(lastOp.pre)
    /\ lastOp.ret = "True"
    /\ Len(lastOp.ev) = 0
    /\ Now = lastOp.pre

-----------------------------------------------------------------------------
(* C15 *)

\* the operations the conduit runs for a message of another pod
FederationOps ==
    {"processExternalInvite", "processExternalUninvite", "processExternalReply"}

\* C15: whenever processExternalInvite, processExternalUninvite or
\* processExternalReply fails with ExternalShareFailed, the homes, the
\* collections, the binds and the notifications are those of before the call.
C15_FailedFederationNoMutation ==
    [][(lastOp'.op \in FederationOps /\ lastOp'.exc = "ExternalShareFailed") =>
           UNCHANGED <<homes, res, binds, inbox>>]_vars

-----------------------------------------------------------------------------
(* C16 *)

\* the last call invited a sharee that had a bind of its own
Reinvited ==
    /\ lastOp.op = "inviteUIDToShare"
    /\ lastOp.args.uid # lastOp.self.home
    /\ lastOp.pre # NoView

\* C16: inviteUIDToShare on a sharee that already has a bind sets the status
\* to INVITED when the status was DECLINED or INVALID and leaves it as it was
\* when it was ACCEPTED or INVITED; the mode and, where one is given, the
\* summary are written to the bind in place: no bind is inserted or deleted
\* and the bind keeps its name.
C16_ReinviteInPlace ==
    Reinvited =>
        /\ lastOp.exc = None
        /\ PairRows = {Now}
        /\ Now.status = IF lastOp.pre.status \in {_BIND_STATUS_DECLINED, _BIND_STATUS_INVALID}
                        THEN _BIND_STATUS_INVITED ELSE lastOp.pre.status
        /\ Now.mode = lastOp.args.mode
        /\ Now.message = IF lastOp.args.summary = None THEN lastOp.pre.message
                         ELSE lastOp.args.summary
        /\ Now.name = lastOp.pre.name
        /\ Now.extid = lastOp.pre.extid
        /\ Len(Effects("insert")) = 0
        /\ Len(Effects("delete")) = 0

C16_Witness ==
    /\ Reinvited
    /\ lastOp.pre.status = _BIND_STATUS_INVALID
    /\ lastOp.pre.mode # lastOp.args.mode
    /\ Now.status = _BIND_STATUS_INVITED
    /\ Now.mode = lastOp.args.mode

-----------------------------------------------------------------------------
(* C17 *)

\* the invites the last call sent through the conduit, in order
Sent == Effects("send_shareinvite")

\* C17: an inviteUIDToShare that returns without raising has dispatched
\* exactly one invite: for a sharee of another pod one conduit invite and no
\* notification, for a sharee of this pod one notification in the sharee's
\* inbox and no conduit invite.
C17_OneInviteDispatched ==
    (lastOp.op = "inviteUIDToShare" /\ lastOp.exc = None) =>
        IF external(lastOp.args.uid)
        THEN /\ Len(Sent) = 1
             /\ Sent[1].shareeUID = lastOp.args.uid
             /\ Sent[1].shareUID = Now.name
             /\ Len(Written) = 0
        ELSE /\ Len(Written) = 1
             /\ Written[1].n.to = lastOp.args.uid
             /\ Written[1].n.uid = Now.name
             /\ Written[1].n \in inbox
             /\ Len(Sent) = 0

C17_Witness ==
    /\ lastOp.op = "inviteUIDToShare"
    /\ lastOp.exc = None
    /\ external(lastOp.args.uid)
    /\ Len(Sent) = 1
    /\ \A n \in inbox : n.to # lastOp.args.uid

-----------------------------------------------------------------------------
(* C18 *)

\* the effects of the call op that deleted the bind of home h
DeletedBy(op, h) ==
    {i \in DOMAIN op.ev : op.ev[i].e = "delete" /\ op.ev[i].home = h
                          /\ op.ev[i].rid = op.args.rid}

\* C18: ownerDeleteShare on an owned collection returns with the owner's bind
\* still there and no longer marked shared, and with every bind of a sharee
\* that the collection had when the call started, invited or direct, removed
\* by the call: no bind of the collection but the owner's is left.
C18_OwnerDeleteUninvitesAll ==
    [][lastOp'.op = "ownerDeleteShare" =>
           /\ lastOp'.exc = None
           /\ \A b \in binds :
                  (b.rid = lastOp'.args.rid /\ ~owned(b)) =>
                      /\ b \notin binds'
                      /\ Cardinality(DeletedBy(lastOp', b.home)) = 1
           /\ \E c \in binds' : c.rid = lastOp'.args.rid /\ owned(c)
           /\ \A c \in binds' : c.rid = lastOp'.args.rid => (owned(c) /\ ~isShared(c))]_vars

C18_Witness ==
    /\ lastOp.op = "ownerDeleteShare"
    /\ lastOp.self.message = "shared"
    /\ Len(Effects("delete")) = 2
    /\ Len(Effects("send_shareuninvite")) = 1
    /\ \A c \in binds : c.rid = lastOp.args.rid => (owned(c) /\ ~isShared(c))

-----------------------------------------------------------------------------
(* C19 *)

\* the last call was a shareWith that returned
Shared == lastOp.op = "shareWith" /\ lastOp.exc = None

\* C19: a shareWith that returns has returned the name of the one bind the
\* pair (resource, sharee home) has when it ends: where the home had no bind
\* of the resource, the name asked for or, none being asked for, the name
\* newly generated; where the home had one, the name of that bind, whatever
\* name was asked for, and the bind still has that name.
C19_ReturnsBindName ==
    Shared =>
        /\ PairRows = {Now}
        /\ lastOp.ret = Now.name
        /\ lastOp.pre = NoView =>
               lastOp.ret = IF lastOp.args.name # None THEN lastOp.args.name
                            ELSE UUIDs[nextUUID - 1]
        /\ lastOp.pre # NoView => lastOp.ret = lastOp.pre.name

C19_Witness ==
    /\ Shared
    /\ lastOp.pre # NoView
    /\ lastOp.args.name \notin {None, lastOp.pre.name}
    /\ lastOp.ret = lastOp.pre.name
    /\ Now.name = lastOp.pre.name

-----------------------------------------------------------------------------
(* C20 *)

\* the last call was a processExternalUninvite that returned
Uninvited == lastOp.op = "processExternalUninvite" /\ lastOp.exc = None

\* the binds of sharees on the shadow collection the last call was about
ShadowInvitations == {b \in binds : b.rid = lastOp.self.rid /\ ~owned(b)}

\* the shadow collection the last call was about is still there
ShadowKept ==
    /\ \E r \in res : r.rid = lastOp.self.rid
    /\ lastOp.self \in binds

\* the shadow collection the last call was about is gone, binds and all
ShadowGone ==
    /\ \A r \in res : r.rid # lastOp.self.rid
    /\ \A b \in binds : b.rid # lastOp.self.rid

\* the binds other sharees have on the shadow collection the call op is about
OtherInvitations(op) ==
    {b \in binds : b.rid = op.self.rid /\ ~owned(b) /\ b.home # op.args.home}

\* C20: after a processExternalUninvite that returned, the home it was called
\* on has no bind of the shadow collection; where no other sharee had a bind
\* of it the shadow collection is deleted, and where one had it is kept, with
\* the binds of the other sharees as they were.
C20_UninviteDropsEmptyShadow ==
    [][Uninvited' =>
           /\ \A b \in ShadowInvitations' : b.home # lastOp'.args.home
           /\ IF OtherInvitations(lastOp') = {} THEN ShadowGone'
              ELSE ShadowKept' /\ ShadowInvitations' = OtherInvitations(lastOp')]_vars

C20_Witness ==
    /\ Uninvited
    /\ lastOp.pre # NoView
    /\ ShadowInvitations # {}
    /\ ShadowKept
    /\ \A b \in binds : ~(b.home = lastOp.args.home /\ b.rid = lastOp.self.rid)

-----------------------------------------------------------------------------
(* C21 *)

\* the last call uninvited a sharee that had a bind of the collection
UninvitedSharee ==
    /\ lastOp.op = "uninviteUIDFromShare"
    /\ lastOp.args.uid # lastOp.self.home
    /\ lastOp.pre # NoView

\* C21: after uninviteUIDFromShare for a sharee that had a bind of the
\* collection no bind of the pair is left, whether the sharee is of another
\* pod or of this one, direct, accepted or not; for a sharee of another pod
\* one uninvite goes through the conduit and no notification is written or
\* removed.
C21_UninviteRemovesBind ==
    UninvitedSharee =>
        /\ lastOp.exc = None
        /\ PairRows = {}
        /\ Len(Effects("delete")) = 1
        /\ external(lastOp.args.uid) =>
               /\ Len(Effects("send_shareuninvite")) = 1
               /\ Effects("send_shareuninvite")[1].shareeUID = lastOp.args.uid
               /\ Effects("send_shareuninvite")[1].shareUID = lastOp.pre.name
               /\ Len(Written) = 0
               /\ Len(Effects("unnotify")) = 0
        /\ ~external(lastOp.args.uid) => Len(Effects("send_shareuninvite")) = 0

C21_Witness ==
    /\ UninvitedSharee
    /\ external(lastOp.args.uid)
    /\ lastOp.pre.status = _BIND_STATUS_ACCEPTED
    /\ PairRows = {}
    /\ Len(Effects("send_shareuninvite")) = 1

-----------------------------------------------------------------------------
(* C22 *)

\* the last call was the sharee's removal of a DIRECT share: deleteShare on
\* the sharee view, or the DECLINED reply of a sharee of another pod
DirectRemoved ==
    /\ \/ lastOp.op = "deleteShare"
       \/ lastOp.op = "processExternalReply"
          /\ lastOp.args.status = _BIND_STATUS_DECLINED
    /\ lastOp.pre # NoView
    /\ direct(lastOp.pre)

\* the replies the last call sent through the conduit, in order
Replied == Effects("send_sharereply")

\* C22: the sharee's removal of a DIRECT share deletes the bind and writes no
\* status to it; a DECLINED reply goes through the conduit when the owner is
\* of another pod, and none when the owner is of this pod.
C22_DirectRemovalDeletes ==
    DirectRemoved =>
        /\ lastOp.exc = None
        /\ \A b \in binds : ~(b.home = lastOp.pre.home /\ b.rid = lastOp.pre.rid)
        /\ Len(Effects("delete")) = 1
        /\ Len(Effects("update")) = 0
        /\ IF viewExternal(State, lastOp.pre)
           THEN /\ Len(Replied) = 1
                /\ Replied[1].status = _BIND_STATUS_DECLINED
                /\ Replied[1].shareeUID = lastOp.pre.home
                /\ Replied[1].shareUID = lastOp.pre.name
           ELSE Len(Replied) = 0

-----------------------------------------------------------------------------
(* C23 *)

\* where in the effects of the last call those of one kind are
At(kind) == {i \in DOMAIN lastOp.ev : lastOp.ev[i].e = kind}

\* the last call was an acceptShare or a declineShare that passed its guard
PassedGuard ==
    /\ lastOp.op \in {"acceptShare", "declineShare"}
    /\ lastOp.pre # NoView
    /\ statusToChange(lastOp.pre, IF lastOp.op = "acceptShare"
                                  THEN _BIND_STATUS_ACCEPTED ELSE _BIND_STATUS_DECLINED)

\* C23: in an acceptShare or declineShare that passes its guard, the reply to
\* the owner's pod, sent when the owner is of another pod, comes before the
\* status is written to the bind through updateShare, and the reply
\* notification, written to the owner's inbox when the owner is of this pod,
\* comes after it; no notification is written when the owner is of another
\* pod and no reply is sent when it is of this pod. A call that returns has
\* made the one reply or the one notification, and the one write.
C23_ReplyUpdateNotify ==
    PassedGuard =>
        /\ \A i \in At("send_sharereply"), j \in At("update") : i < j
        /\ \A i \in At("update"), j \in At("notify") : i < j
        /\ IF viewExternal(State, lastOp.pre)
           THEN At("notify") = {}
           ELSE At("send_sharereply") = {}
        /\ lastOp.exc = None =>
               /\ Cardinality(At("update")) = 1
               /\ \A i \in At("update") : lastOp.ev[i].cols = {"status"}
               /\ Cardinality(At("send_sharereply") \cup At("notify")) = 1
               /\ \A i \in At("notify") : lastOp.ev[i].n.to = ownerHome(State, lastOp.pre)

C23_Witness ==
    /\ PassedGuard
    /\ lastOp.op = "acceptShare"
    /\ lastOp.exc = None
    /\ viewExternal(State, lastOp.pre)
    /\ \E i \in At("send_sharereply"), j \in At("update") : i < j

-----------------------------------------------------------------------------
(* C24 *)

\* the operations that send a message through the conduit
SendingOps ==
    {"inviteUIDToShare", "directShareWithUser", "uninviteUIDFromShare",
     "acceptShare", "declineShare", "deleteShare"}

\* where in the effects of the last call the conduit messages are
AtSend == At("send_shareinvite") \cup At("send_shareuninvite") \cup At("send_sharereply")

\* where in the effects of the last call the writes to the bind table are
AtBindWrite == At("insert") \cup At("update") \cup At("delete")

\* C24: in an operation that sends a message through the conduit the send
\* comes after the local steps that can fail: no write to the bind table
\* follows it, and the operation does not raise once it has sent.
C24_SendAfterLocalSteps ==
    (lastOp.op \in SendingOps /\ AtSend # {}) =>
        /\ lastOp.exc = None
        /\ \A i \in AtSend, j \in AtBindWrite : j < i

-----------------------------------------------------------------------------
(* C25 *)

\* the columns the last updateShare was asked to change: those whose value is
\* given and is not the one the sharee view had
AskedColumns ==
    {c \in {"mode", "status", "message"} :
        LET given == CASE c = "mode" -> lastOp.args.mode
                       [] c = "status" -> lastOp.args.status
                       [] c = "message" -> lastOp.args.summary
            had == CASE c = "mode" -> lastOp.pre.mode
                     [] c = "status" -> lastOp.pre.status
                     [] c = "message" -> lastOp.pre.message
        IN  given # None /\ given # had}

\* the bind the sharee view had, with the asked columns set
AskedRow ==
    [lastOp.pre EXCEPT
        !.mode = IF "mode" \in AskedColumns THEN lastOp.args.mode ELSE @,
        !.status = IF "status" \in AskedColumns THEN lastOp.args.status ELSE @,
        !.message = IF "message" \in AskedColumns THEN lastOp.args.summary ELSE @]

\* where in the effects of the last call those of a status transition are
AtTransition ==
    At("previousAcceptCount") \cup At("initSyncToken") \cup At("bindRevision")
    \cup At("deletedSyncToken") \cup At("indexAdd") \cup At("indexPop")

\* C25: updateShare writes the columns among mode, status and message whose
\* value is given and differs from the sharee view's, and no other; where
\* none does it writes nothing to the bind table, runs no status transition
\* and leaves the view as it was; after a write the view's mode, status and
\* message are those of the bind in the table. A status transition runs only
\* where the status is written.
C25_UpdateWritesAskedColumns ==
    lastOp.op = "updateShare" =>
        /\ lastOp.exc = None
        /\ Now = AskedRow
        /\ lastOp.view = Now
        /\ IF AskedColumns = {}
           THEN At("update") = {} /\ AtTransition = {} /\ lastOp.view = lastOp.pre
           ELSE /\ Cardinality(At("update")) = 1
                /\ \A i \in At("update") : lastOp.ev[i].cols = AskedColumns
        /\ "status" \notin AskedColumns => AtTransition = {}

C25_Witness ==
    /\ lastOp.op = "updateShare"
    /\ AskedColumns = {"mode", "message"}
    /\ lastOp.args.status = lastOp.pre.status
    /\ lastOp.view = Now
    /\ Now # lastOp.pre

-----------------------------------------------------------------------------
(* C26 *)

\* the last updateShare invalidated the cached queries of the sharee view and
\* raised the change notifications of the collection and of the sharee home
UpdateNotified ==
    /\ \E i \in At("invalidate") :
           lastOp.ev[i].home = lastOp.pre.home /\ lastOp.ev[i].rid = lastOp.pre.rid
    /\ \E i \in At("propertyChanged") : lastOp.ev[i].rid = lastOp.self.rid
    /\ \E i \in At("homeChanged") : lastOp.ev[i].home = lastOp.pre.home

\* C26 as stated: every call of updateShare, one that changes no column
\* included, invalidates the cached queries and raises the change
\* notifications of the owner side and of the sharee home.
C26_UpdateAlwaysNotifies ==
    lastOp.op = "updateShare" => UpdateNotified

\* C26: a call of updateShare that writes a column invalidates the cached
\* queries of the sharee view and raises the change notifications of the
\* collection and of the sharee home, all after the write; a call that
\* writes no column invalidates nothing and notifies nobody.
C26_UpdateNotifiesOnWrite ==
    lastOp.op = "updateShare" =>
        IF At("update") # {}
        THEN /\ UpdateNotified
             /\ \A i \in At("update"),
                   j \in At("invalidate") \cup At("propertyChanged") \cup At("homeChanged") :
                    i < j
        ELSE At("invalidate") \cup At("propertyChanged") \cup At("homeChanged") = {}

C26_Witness ==
    /\ lastOp.op = "updateShare"
    /\ At("update") # {}
    /\ At("previousAcceptCount") = {}
    /\ UpdateNotified

-----------------------------------------------------------------------------
(* C27 *)

\* the owner's bind of the collection the last call was made on
OwnBindNow == {b \in binds : b.rid = lastOp.self.rid /\ b.home = lastOp.self.home}

\* C27: every shareWith that returns, by the insert or by the fallback, and
\* also where the fallback changed no column, leaves the owner's collection
\* marked shared and has raised, as its last two effects, the change
\* notification of the collection and that of the sharee home.
C27_ShareWithMarksAndNotifies ==
    (lastOp.op = "shareWith" /\ lastOp.exc = None) =>
        /\ OwnBindNow # {}
        /\ \A b \in OwnBindNow : isShared(b)
        /\ Len(lastOp.ev) >= 2
        /\ LET n == Len(lastOp.ev)
           IN  /\ lastOp.ev[n - 1].e = "propertyChanged"
               /\ lastOp.ev[n - 1].rid = lastOp.self.rid
               /\ lastOp.ev[n].e = "homeChanged"
               /\ lastOp.ev[n].home = lastOp.args.uid

\* the fallback was taken and nothing was written, the collection being
\* shared already
C27_Witness ==
    /\ lastOp.op = "shareWith"
    /\ lastOp.exc = None
    /\ lastOp.pre # NoView
    /\ At("update") = {}
    /\ At("insert") = {}
    /\ At("homeChanged") # {}
    /\ \A b \in OwnBindNow : isShared(b)

-----------------------------------------------------------------------------
(* C28 *)

\* the effect at place k of the last call is the delete that ends a
\* removeShare run in the order of the source: the sync token of the sharee
\* view deleted, the resource evicted from the index of the sharee home, the
\* collection and the sharee home notified, then the bind deleted
RemovedInOrder(k) ==
    /\ k > 4
    /\ LET d == lastOp.ev[k]
       IN  /\ lastOp.ev[k - 4].e = "deletedSyncToken"
           /\ lastOp.ev[k - 4].home = d.home /\ lastOp.ev[k - 4].rid = d.rid
           /\ lastOp.ev[k - 3].e = "indexPop"
           /\ lastOp.ev[k - 3].home = d.home /\ lastOp.ev[k - 3].rid = d.rid
           /\ lastOp.ev[k - 2].e = "propertyChanged" /\ lastOp.ev[k - 2].rid = d.rid
           /\ lastOp.ev[k - 1].e = "homeChanged" /\ lastOp.ev[k - 1].home = d.home

\* C28: every removeShare, in whichever operation it runs, tears down the
\* sync state of the sharee view, evicts the resource from the index of the
\* sharee home by name and by id, notifies the collection and the sharee
\* home, and only then deletes the bind; afterwards the pair has no bind and
\* the index of the sharee home does not hold the resource.
C28_RemoveShareOrder ==
    \A k \in At("delete") :
        /\ RemovedInOrder(k)
        /\ \A b \in binds : ~(b.rid = lastOp.ev[k].rid /\ b.home = lastOp.ev[k].home)
        /\ lastOp.ev[k].rid \notin children[lastOp.ev[k].home].ids

\* an operation that removed two shares, each in that order
C28_Witness ==
    /\ lastOp.exc = None
    /\ Cardinality(At("delete")) = 2
    /\ \A k \in At("delete") : RemovedInOrder(k)

-----------------------------------------------------------------------------
(* C29 *)

\* the last call was an invitation or a direct share an owner made to its
\* own UID
SelfShared ==
    /\ lastOp.op \in {"inviteUIDToShare", "directShareWithUser"}
    /\ owned(lastOp.self)
    /\ lastOp.args.uid = lastOp.self.home

\* C29 as stated: inviteUIDToShare, directShareWithUser or createShare with
\* the owner's own UID as sharee leaves the mode, the status and the name of
\* the owner's OWN bind as they were and the owned resource in the owner's
\* index.
C29_SelfShareKeepsOwnBind ==
    SelfShared =>
        /\ \E b \in OwnBindNow :
               /\ b.mode = lastOp.self.mode
               /\ b.status = lastOp.self.status
               /\ b.name = lastOp.self.name
        /\ InIndex(lastOp.self)

-----------------------------------------------------------------------------
(* C30 *)

\* the last shareWith made no insert: every retry failed and the fallback
\* was taken
FallbackTaken == lastOp.op = "shareWith" /\ At("insert") = {}

\* C30 as stated: whenever the insert of shareWith fails and the fallback is
\* taken, the sharee home holds a bind of the resource at the re-read,
\* whatever made the insert fail, a share name another resource uses in that
\* home included; the fallback never updates a record that is not there.
C30_FallbackFindsBind ==
    FallbackTaken => (lastOp.pre # NoView /\ lastOp.exc = None)

-----------------------------------------------------------------------------
(* C31 *)

\* the operations that handle a message of the peer pod
InboundOps == {"processExternalInvite", "processExternalUninvite", "processExternalReply"}

\* C31 as stated: handling a message of the peer pod sends no conduit
\* message: no invite, no uninvite and no reply goes out of
\* processExternalInvite, processExternalUninvite or processExternalReply.
C31_InboundSendsNothing ==
    lastOp.op \in InboundOps => AtSend = {}

-----------------------------------------------------------------------------
(* C32 *)

\* every conduit message has been handled by the peer's inbound operation
Delivered == pods.store # <<>> /\ Quiet

\* name, mode and status of the binds pod p has for the sharee of the other
\* pod on the collection it owns
OwnerSide(p) ==
    {<<b.name, b.mode, b.status>> :
        b \in {r \in pods.store[p].binds : r.rid = OwnedRID /\ r.home = "x"}}

\* name, mode and status of the binds the sharee's pod q has for the sharee
\* on the collection of the other pod
ShareeSide(q) ==
    {<<b.name, b.mode, b.status>> :
        b \in {r \in pods.store[q].binds :
                  r.home = "a" /\ ownerHome(pods.store[q], r) = "x"}}

\* the last operation was op, it did not raise, and all it sent was handled
After(op) == Delivered /\ pods.last.op = op /\ pods.last.exc = None

\* the two pods hold the same binds of each share, by name, mode and status
PodsAgree == \A p \in Pods : OwnerSide(p) = ShareeSide(Peer(p))

\* C32 as stated: once every conduit message has been handled by the
\* matching inbound operation of the peer, the owner's pod and the sharee's
\* pod hold the same binds of the share, by name (the share UID), mode and
\* status, and neither holds one after an uninvite.
C32_PodsAgreeWhenDelivered ==
    Delivered =>
        /\ PodsAgree
        /\ After("uninviteUIDFromShare") => OwnerSide(pods.last.pod) = {}

\* C32: where no operation has run while a conduit message was on its way,
\* once every message has been handled by the matching inbound operation of
\* the peer the two pods hold the same binds of the share by name (the share
\* UID), mode and status: one on each pod after an invite or a direct share,
\* with the status the sharee chose after an accept or a decline and its
\* reply (a direct share stays accepted), none on either pod after an
\* uninvite.
C32_PodsAgreeInTurn ==
    (Delivered /\ ~pods.overlap) =>
        /\ PodsAgree
        /\ \A p \in Pods : Cardinality(OwnerSide(p)) <= 1
        /\ (After("inviteUIDToShare") \/ After("directShareWithUser"))
              => OwnerSide(pods.last.pod) # {}
        /\ After("uninviteUIDFromShare") => OwnerSide(pods.last.pod) = {}
        /\ After("acceptShare") =>
              \A b \in ShareeSide(pods.last.pod) : b[3] = _BIND_STATUS_ACCEPTED
        /\ After("declineShare") =>
              \A b \in ShareeSide(pods.last.pod) :
                  b[2] # _BIND_MODE_DIRECT => b[3] = _BIND_STATUS_DECLINED

\* the sharee's accept of an invitation has been replied and the reply
\* handled: the owner's pod has the share accepted
C32_Witness ==
    /\ After("acceptShare")
    /\ ~pods.overlap
    /\ Len(pods.last.recv) = 1
    /\ pods.last.recv[1].exc = None
    /\ \E b \in OwnerSide(Peer(pods.last.pod)) :
           b[2] = _BIND_MODE_READ /\ b[3] = _BIND_STATUS_ACCEPTED

====
